---------------------------- MODULE Spec2Model ----------------------------
(***************************************************************************)
(* Vehicle import analyser: matching and profitability scoring engine.     *)
(*                                                                         *)
(* Numbers.  Python floats are modelled in fixed point:                    *)
(*   - GBP and JPY amounts are whole currency units;                       *)
(*   - an exchange rate is in units of 1/RateScale GBP per JPY;            *)
(*   - percentages rounded by round(x, 2) are in hundredths of a percent;  *)
(*   - scores rounded by round(x, 1) are in tenths of a point;             *)
(*   - the unrounded ml_score is in 1/MlScale of a point and the           *)
(*     unrounded final_recommendation_score in 1/FinalScale of a point.    *)
(* round() is round-half-even on the exact quotient (RoundHE).             *)
(***************************************************************************)
EXTENDS Integers, Sequences, FiniteSets, TLC

VARIABLES
    \* ProfitabilityCalculator._match_uk_japan_data: one call
    uk_market_data,      \* table: row |-> number of rows with these columns
    japan_auction_data,  \* table, likewise
    mm_pc,               \* "idle" before the call, "done" after it returned
    mm_make,             \* argument make (None or a string)
    mm_model,            \* argument model
    matched_data,        \* the returned list
    \* JapanAuctionAPI.calculate_landed_cost: one call
    lc_pc,            \* "idle" before the call, "done" after it returned
    lc_hammer_price,  \* argument hammer_price (JPY)
    lc_vehicle_data,  \* argument vehicle_data: [category, year]
    lc_response,      \* what the exchange-rate request of this call produced
    lc_locals,        \* the locals exchange_rate, jpy_total, gbp_from_jpy, cif_value
    costs,            \* the returned dict ({} after an exception)
    \* ProfitabilityCalculator: one pass of calculate_profitability_matrix's loop
    current_year,     \* datetime.now().year
    match_data,       \* the matched record handed to _calculate_individual_profit
    pc_pc,            \* "idle" before the pass, "done" after it
    risk_ret,         \* what _calculate_risk_score returned (None if not reached or raised)
    demand_ret,       \* what _calculate_demand_score returned (None likewise)
    profit_analysis,  \* what _calculate_individual_profit returned (None or a result)
    profitability_results,  \* the list calculate_profitability_matrix builds
    \* ScoringEngine: one run of analyze_profitability
    ml_model,         \* self.ml_model: "RandomForestRegressor" (unfitted) or "None"
    se_pc,            \* "idle", "loop" (in the for loop), "done" (returned)
    se_year,          \* datetime.now().year during the run
    se_gov_data,      \* argument gov_data
    base_results,     \* what calculate_profitability_matrix returned
    enhanced_results, \* the list the loop builds
    se_found,         \* what the database lookups of each loop iteration answered
    profitability_analysis,  \* the table: [view, committed] lists of rows
    se_ret,           \* what analyze_profitability returned (None before)
    \* ScoringEngine._calculate_final_score: one direct call
    fs_pc,            \* "idle" before the call, "done" after it returned
    fs_result,        \* argument result
    fs_ret,           \* the returned score (None before)
    \* ProfitabilityCalculator._calculate_overall_score: direct calls
    os_prev,          \* the call before the last one: None or [args, ret]
    os_last,          \* the last call: None or [args, ret]
    \* ScoringEngine._calculate_confidence_interval: one direct call
    ci_pc,            \* "idle" before the call, "done" after it returned
    ci_result,        \* argument result
    ci_ret,           \* the returned dict ({} before)
    \* One direct call of another method (its specification says which)
    dc_pc,            \* "idle" before the call, "done" after it returned
    dc_arg,           \* the argument, or what the environment answers during the call
    dc_log,           \* the calls the method made, in order
    dc_ret            \* what it returned (None before)

mm_vars == <<uk_market_data, japan_auction_data, mm_pc, mm_make, mm_model,
             matched_data>>

lc_vars == <<lc_pc, lc_hammer_price, lc_vehicle_data, lc_response, lc_locals, costs>>

pc_vars == <<current_year, match_data, pc_pc, risk_ret, demand_ret,
             profit_analysis, profitability_results>>

se_vars == <<ml_model, se_pc, se_year, se_gov_data, base_results, enhanced_results, se_found,
             profitability_analysis, se_ret>>

fs_vars == <<fs_pc, fs_result, fs_ret>>

os_vars == <<os_prev, os_last>>

ci_vars == <<ci_pc, ci_result, ci_ret>>

dc_vars == <<dc_pc, dc_arg, dc_log, dc_ret>>

vars == <<mm_vars, lc_vars, pc_vars, se_vars, fs_vars, os_vars, ci_vars, dc_vars>>

-----------------------------------------------------------------------------
(* Arithmetic helpers *)

Min(a, b) == IF a <= b THEN a ELSE b

Max(a, b) == IF a >= b THEN a ELSE b

\* round(n / d) to the nearest integer, ties to even; d > 0.
RoundHE(n, d) ==
    LET q == n \div d
        r == n % d
    IN  IF 2 * r < d THEN q
        ELSE IF 2 * r > d THEN q + 1
        ELSE IF q % 2 = 0 THEN q ELSE q + 1

\* round(a * k / d) without forming a * k; a >= 0, k > 0, d > 0.
RoundMulDiv(a, k, d) ==
    LET q == (a \div d) * k + ((a % d) * k) \div d
        r == ((a % d) * k) % d
    IN  IF 2 * r < d THEN q
        ELSE IF 2 * r > d THEN q + 1
        ELSE IF q % 2 = 0 THEN q ELSE q + 1

\* The empty dict {}.
EmptyDict == [k \in {} |-> 0]

\* Python's None / SQL NULL for a value that may be absent: the empty set;
\* a present value v is {v}.
None == {}

Some(v) == {v}

Val(o) == CHOOSE v \in o : TRUE

\* str.lower() / SQL LOWER() on the strings of the model: letters are
\* lower-cased, every other character (a blank too) is kept.
\* dict.get(key, default) and dict.update(other) on dicts held as functions.
Get(d, key, default) == IF key \in DOMAIN d THEN d[key] ELSE default

Update(d, other) ==
    [k \in DOMAIN d \cup DOMAIN other |-> IF k \in DOMAIN other THEN other[k] ELSE d[k]]

\* The sum of f[x] over x in S.
RECURSIVE SumOver(_, _)
SumOver(f, S) ==
    IF S = {} THEN 0
    ELSE LET x == CHOOSE y \in S : TRUE
         IN  f[x] + SumOver(f, S \ {x})

\* list.sort(key=lambda x: x.get(key, 0), reverse=True): a stable sort, equal
\* keys keep their order.
InsertSorted_append(q, x, key) == Append(q, x)

InsertSorted(q, x, key) ==
    LET pos == Cardinality({ i \in 1..Len(q) : Get(q[i], key, 0) >= Get(x, key, 0) })
    IN  SubSeq(q, 1, pos) \o <<x>> \o SubSeq(q, pos + 1, Len(q))

RECURSIVE SortDescBy(_, _)
SortDescBy(q, key) ==
    IF q = <<>> THEN <<>>
    ELSE InsertSorted(SortDescBy(SubSeq(q, 1, Len(q) - 1), key), q[Len(q)], key)

Lower(s) ==
    CASE s = "Toyota" -> "toyota"
      [] s = "TOYOTA" -> "toyota"
      [] s = " Toyota" -> " toyota"
      [] s = "Prius" -> "prius"
      [] s = "Hybrid" -> "hybrid"
      [] s = "PETROL" -> "petrol"
      [] s = "Diesel" -> "diesel"
      [] s = "BMW" -> "bmw"
      [] s = "X5" -> "x5"
      [] s = "Aqua" -> "aqua"
      [] s = "Honda" -> "honda"
      [] s = "Fit" -> "fit"
      [] OTHER -> s

-----------------------------------------------------------------------------
(* The components at rest: each specification below exercises one component *)
(* and leaves the others in this state.                                     *)

\* No call of _match_uk_japan_data is in progress, the tables are empty.
MatchIdle ==
    /\ uk_market_data = EmptyDict
    /\ japan_auction_data = EmptyDict
    /\ mm_pc = "idle"
    /\ mm_make = None
    /\ mm_model = None
    /\ matched_data = <<>>

NoLocals == [exchange_rate |-> 0, jpy_total |-> 0, gbp_from_jpy |-> 0, cif_value |-> 0]

\* No call of calculate_landed_cost is in progress.
CostIdle ==
    /\ lc_pc = "idle"
    /\ lc_hammer_price = 0
    /\ lc_vehicle_data = [category |-> "Car", year |-> 0]
    /\ lc_response = [kind |-> "exception", rate |-> 0]
    /\ lc_locals = NoLocals
    /\ costs = EmptyDict

NoMatch ==
    [make |-> "", model |-> "", year |-> 0, fuel_type |-> "",
     avg_uk_price |-> 0, min_uk_price |-> 0, max_uk_price |-> 0,
     uk_listing_count |-> 0, avg_days_listed |-> 0,
     avg_landed_cost |-> 0, min_landed_cost |-> 0,
     japan_auction_count |-> 0, avg_condition_grade |-> None]

\* No pass of calculate_profitability_matrix is in progress.
ProfitIdle ==
    /\ current_year = 0
    /\ match_data = NoMatch
    /\ pc_pc = "idle"
    /\ risk_ret = None
    /\ demand_ret = None
    /\ profit_analysis = None
    /\ profitability_results = <<>>

\* No run of analyze_profitability is in progress.
ScoreIdle ==
    /\ ml_model = "None"
    /\ se_pc = "idle"
    /\ se_year = 0
    /\ se_gov_data = <<>>
    /\ base_results = <<>>
    /\ enhanced_results = <<>>
    /\ se_found = <<>>
    /\ profitability_analysis = [view |-> <<>>, committed |-> <<>>]
    /\ se_ret = None

\* No call of _calculate_final_score is in progress.
FinalIdle ==
    /\ fs_pc = "idle"
    /\ fs_result = EmptyDict
    /\ fs_ret = None

\* No call of _calculate_overall_score was made.
OverallIdle ==
    /\ os_prev = None
    /\ os_last = None

\* No call of _calculate_confidence_interval is in progress.
ConfidenceIdle ==
    /\ ci_pc = "idle"
    /\ ci_result = EmptyDict
    /\ ci_ret = EmptyDict

\* No other method is called directly.
DirectIdle ==
    /\ dc_pc = "idle"
    /\ dc_arg = EmptyDict
    /\ dc_log = <<>>
    /\ dc_ret = None

-----------------------------------------------------------------------------
(* JapanAuctionAPI: landed cost *)

\* Exchange rates are held in units of 10^-4 GBP per JPY.
RateScale == 10 ^ 4

\* _get_exchange_rate's built-in rate, 0.0055 GBP per JPY.
FallbackRate == 55

\* Outcomes of the GET in _get_exchange_rate: status 200 with rates.GBP = r,
\* status 200 without a GBP rate (KeyError), another status, an exception.
Rates == {0, 50, 55, 100}

Responses ==
    [kind : {"ok"}, rate : Rates]
        \cup {[kind |-> "no_rate", rate |-> 0],
              [kind |-> "bad_status", rate |-> 0],
              [kind |-> "exception", rate |-> 0]}

HammerPrices == {150000, 1000000, 2500000}

Categories == {"Car", "SUV", "Truck", "Van"}

ModelYears == {2010, 2015, 2016, 2020}

VehicleData == [category : Categories, year : ModelYears]

_calculate_freight_cost(vehicle_data) ==
    LET base_cost == 800
    IN  IF vehicle_data.category = "SUV" THEN base_cost + 200
        ELSE IF vehicle_data.category = "Truck" THEN base_cost + 400
        ELSE IF vehicle_data.category = "Van" THEN base_cost + 300
        ELSE base_cost

_calculate_conversion_costs(vehicle_data) ==
    LET fixed == 150 + 100 + 50 + 75
    IN  IF vehicle_data.year > 2015 THEN fixed + 200 ELSE fixed

\* The rate _get_exchange_rate returns: the response's GBP rate, or the
\* fallback when the request raised, had another status or held no rate.
_get_exchange_rate(response) ==
    IF response.kind = "ok" THEN response.rate ELSE FallbackRate

\* JPY -> GBP as calculate_landed_cost does it: jpy_total / exchange_rate.
ConvertJpyToGbp(jpy_total, exchange_rate) ==
    RoundMulDiv(jpy_total, RateScale, exchange_rate)

\* The body of calculate_landed_cost's try block, as [raised, locals, costs].
LandedCost(hammer_price, vehicle_data, response) ==
    LET auction_fees == RoundHE(hammer_price * 8, 100)   \* hammer_price * 0.08
        transport_to_port == 25000
        export_certificate == 5000
        radiation_certificate == 3000
        freight_cost == _calculate_freight_cost(vehicle_data)
        port_handling == 150
        transport_from_port == 200
        iva_test == 250
        registration_fees == 55
        conversion_costs == _calculate_conversion_costs(vehicle_data)
        exchange_rate == _get_exchange_rate(response)
        jpy_total == hammer_price + auction_fees + transport_to_port
                        + export_certificate + radiation_certificate
    IN  IF exchange_rate = 0
        THEN \* ZeroDivisionError, caught: return {}
             [raised |-> TRUE,
              locals |-> [exchange_rate |-> exchange_rate, jpy_total |-> jpy_total,
                          gbp_from_jpy |-> 0, cif_value |-> 0],
              costs  |-> EmptyDict]
        ELSE LET gbp_from_jpy == ConvertJpyToGbp(jpy_total, exchange_rate)
                 cif_value == gbp_from_jpy + freight_cost
                 uk_vat == RoundHE(cif_value, 5)     \* cif_value * 0.20
                 total_landed_cost == gbp_from_jpy + freight_cost + uk_vat
                                        + port_handling + transport_from_port
                                        + iva_test + registration_fees
                                        + conversion_costs
             IN  [raised |-> FALSE,
                  locals |-> [exchange_rate |-> exchange_rate, jpy_total |-> jpy_total,
                              gbp_from_jpy |-> gbp_from_jpy, cif_value |-> cif_value],
                  costs  |-> [hammer_price |-> hammer_price,
                              auction_fees |-> auction_fees,
                              transport_to_port |-> transport_to_port,
                              export_certificate |-> export_certificate,
                              radiation_certificate |-> radiation_certificate,
                              freight_cost |-> freight_cost,
                              uk_import_duty |-> 0,
                              uk_vat |-> uk_vat,
                              port_handling |-> port_handling,
                              transport_from_port |-> transport_from_port,
                              iva_test |-> iva_test,
                              registration_fees |-> registration_fees,
                              conversion_costs |-> conversion_costs,
                              total_landed_cost_gbp |-> total_landed_cost,
                              exchange_rate_used |-> exchange_rate]]

InitCost ==
    /\ lc_pc = "idle"
    /\ lc_hammer_price \in HammerPrices
    /\ lc_vehicle_data \in VehicleData
    /\ lc_response \in Responses
    /\ lc_locals = NoLocals
    /\ costs = EmptyDict
    /\ MatchIdle
    /\ ProfitIdle
    /\ ScoreIdle
    /\ FinalIdle
    /\ OverallIdle
    /\ ConfidenceIdle
    /\ DirectIdle

calculate_landed_cost ==
    /\ lc_pc = "idle"
    /\ LET r == LandedCost(lc_hammer_price, lc_vehicle_data, lc_response)
       IN  /\ lc_locals' = r.locals
           /\ costs' = r.costs
    /\ lc_pc' = "done"
    /\ UNCHANGED <<lc_hammer_price, lc_vehicle_data, lc_response>>
    /\ UNCHANGED <<mm_vars, pc_vars, se_vars, fs_vars, os_vars, ci_vars, dc_vars>>

NextCost == calculate_landed_cost

SpecCost == InitCost /\ [][NextCost]_vars

-----------------------------------------------------------------------------
(* ProfitabilityCalculator: matching UK listings with Japan auctions *)

\* A table is held as row |-> count: how many rows (each with its own id)
\* carry these column values.  Nullable columns hold None or Some(v).
MaxUK == 4

MaxJP == 3

UKRow(make, model, price) ==
    [make |-> make, model |-> model, year |-> 2020, fuel_type |-> Some("Hybrid"),
     price |-> price, days_listed |-> 20]

JPRow(make, model, fuel_type, total_landed_cost_gbp) ==
    [make |-> make, model |-> model, year |-> 2020, fuel_type |-> fuel_type,
     condition_grade |-> "4.5", total_landed_cost_gbp |-> total_landed_cost_gbp]

\* UK listings: two prices, make in two letter cases, a second model.
UKRows ==
    { UKRow("Toyota", "Prius", 100), UKRow("Toyota", "Prius", 300),
      UKRow("toyota", "Prius", 100), UKRow("Toyota", "Aqua", 100) }

\* Auction records: two landed costs, a failed landed cost (0), a make with
\* leading whitespace, a record without fuel type, and a model no UK listing
\* has.
JPRows ==
    { JPRow("Toyota", "Prius", Some("Hybrid"), 80),
      JPRow("Toyota", "Prius", Some("Hybrid"), 120),
      JPRow("Toyota", "Prius", Some("Hybrid"), 0),
      JPRow(" Toyota", "Prius", Some("Hybrid"), 80),
      JPRow("Toyota", "Prius", None, 80),
      JPRow("Honda", "Fit", Some("Hybrid"), 80) }

\* The number of rows of table t among the row values S.
CountRows(t, S) == SumOver([r \in S |-> t[r]], S)

\* The tables with at most max rows over the row values rows.
Tables(rows, max) ==
    { [r \in { x \in rows : t[x] > 0 } |-> t[r]] :
        t \in { u \in [rows -> 0..max] : CountRows(u, rows) <= max } }

\* a = b in SQL: not true when either side is NULL.
SqlEquals(a, b) == a # None /\ b # None /\ a = b

\* Mutant of JoinOn: auction rows join whatever their landed cost.
JoinOn_anyCost(uk, jp) ==
    /\ Lower(uk.make) = Lower(jp.make)
    /\ Lower(uk.model) = Lower(jp.model)
    /\ uk.year = jp.year
    /\ SqlEquals(uk.fuel_type, jp.fuel_type)

JoinOn_anyVehicle(uk, jp) ==
    /\ uk.year = jp.year
    /\ jp.total_landed_cost_gbp > 0

\* The ON condition of the INNER JOIN (lines 79-85).
JoinOn(uk, jp) ==
    /\ Lower(uk.make) = Lower(jp.make)
    /\ Lower(uk.model) = Lower(jp.model)
    /\ uk.year = jp.year
    /\ SqlEquals(uk.fuel_type, jp.fuel_type)
    /\ jp.total_landed_cost_gbp > 0

\* where_clause (lines 49-57): "if make:" and "if model:" add an exact match.
WhereClause(uk, make, model) ==
    /\ make # None => uk.make = Val(make)
    /\ model # None => uk.model = Val(model)

\* The columns of GROUP BY (line 87).
GroupKey(uk) ==
    [make |-> uk.make, model |-> uk.model, year |-> uk.year, fuel_type |-> uk.fuel_type]

\* CASE WHEN condition_grade ~ '^[0-9.]+$' THEN CAST(... AS FLOAT) ELSE NULL,
\* in tenths.
GradeValue(condition_grade) ==
    CASE condition_grade = "4.5" -> Some(45)
      [] condition_grade = "3.5" -> Some(35)
      [] OTHER -> None

\* The row the query gives for group g, and whether HAVING keeps it.  U are
\* the UK rows of the group, J the auction rows joined to them: every UK row
\* of a group joins the same auction rows, so the group has nU * nJ joined
\* rows, and COUNT(uk.id) and COUNT(jp.id) both count joined rows.
GroupRow(uk_table, jp_table, make, model, g) ==
    LET U == { uk \in DOMAIN uk_table : WhereClause(uk, make, model) /\ GroupKey(uk) = g }
        J == { jp \in DOMAIN jp_table : \E uk \in U : JoinOn(uk, jp) }
        nU == CountRows(uk_table, U)
        nJ == CountRows(jp_table, J)
        graded == { jp \in J : GradeValue(jp.condition_grade) # None }
        nG == CountRows(jp_table, graded)
    IN  [joined |-> nU * nJ,
         row |->
          IF nU * nJ = 0 THEN EmptyDict
          ELSE
           [make |-> g.make, model |-> g.model, year |-> g.year,
            fuel_type |-> Val(g.fuel_type),
            avg_uk_price |-> RoundHE(SumOver([uk \in U |-> uk_table[uk] * uk.price], U), nU),
            min_uk_price |-> CHOOSE x \in { uk.price : uk \in U } :
                                \A uk \in U : x <= uk.price,
            max_uk_price |-> CHOOSE x \in { uk.price : uk \in U } :
                                \A uk \in U : x >= uk.price,
            uk_listing_count |-> nU * nJ,
            avg_days_listed |->
                RoundHE(SumOver([uk \in U |-> uk_table[uk] * uk.days_listed], U), nU),
            avg_landed_cost |->
                RoundHE(SumOver([jp \in J |-> jp_table[jp] * jp.total_landed_cost_gbp], J),
                        nJ),
            min_landed_cost |-> CHOOSE x \in { jp.total_landed_cost_gbp : jp \in J } :
                                   \A jp \in J : x <= jp.total_landed_cost_gbp,
            japan_auction_count |-> nU * nJ,
            avg_condition_grade |->
                IF nG = 0 THEN None
                ELSE Some(RoundHE(SumOver([jp \in graded |->
                                     jp_table[jp] * Val(GradeValue(jp.condition_grade))],
                                   graded), nG))]]

\* The result set of the query (lines 59-89):
\* HAVING COUNT(uk.id) >= 3 AND COUNT(jp.id) >= 3.
MatchQuery(uk_table, jp_table, make, model) ==
    LET groups == { GroupKey(uk) : uk \in { x \in DOMAIN uk_table :
                                              WhereClause(x, make, model) } }
    IN  { GroupRow(uk_table, jp_table, make, model, g).row :
            g \in { h \in groups :
                      LET joined == GroupRow(uk_table, jp_table, make, model, h).joined
                      IN  joined >= 3 /\ joined >= 3 } }

\* The lists that hold the elements of S once each (the query has no ORDER BY).
Orderings(S) ==
    { q \in [1..Cardinality(S) -> S] :
        \A i \in 1..Cardinality(S) : \A j \in 1..Cardinality(S) : i # j => q[i] # q[j] }

\* The tables when the matcher is called.
Init ==
    /\ uk_market_data \in Tables(UKRows, MaxUK)
    /\ japan_auction_data \in Tables(JPRows, MaxJP)
    /\ mm_pc = "idle"
    /\ mm_make = None
    /\ mm_model = None
    /\ matched_data = <<>>
    /\ CostIdle
    /\ ProfitIdle
    /\ ScoreIdle
    /\ FinalIdle
    /\ OverallIdle
    /\ ConfidenceIdle
    /\ DirectIdle

\* _match_uk_japan_data(make, model).  db.fetchall answers the result set, or
\* [] when executing the query raised (connection.py lines 63-74).
_match_uk_japan_data ==
    /\ mm_pc = "idle"
    /\ \E make \in {None, Some("Toyota"), Some("toyota")} :
       \E model \in {None, Some("Prius")} :
         /\ mm_make' = make
         /\ mm_model' = model
         /\ \/ matched_data' \in
                   Orderings(MatchQuery(uk_market_data, japan_auction_data, make, model))
            \/ matched_data' = <<>>
    /\ mm_pc' = "done"
    /\ UNCHANGED <<uk_market_data, japan_auction_data>>
    /\ UNCHANGED <<lc_vars, pc_vars, se_vars, fs_vars, os_vars, ci_vars, dc_vars>>

Next == _match_uk_japan_data

Spec == Init /\ [][Next]_vars

-----------------------------------------------------------------------------
(* ProfitabilityCalculator: risk, demand, overall score, individual profit *)

\* Mutant of RiskVolatility: the price volatility is not capped at 50.
RiskVolatility_uncapped(m) ==
    LET uk_price_range == m.max_uk_price - m.min_uk_price
        avg_price == m.avg_uk_price
    IN  IF avg_price > 0
        THEN [num |-> uk_price_range * 100, den |-> avg_price]
        ELSE [num |-> 50, den |-> 1]

\* The four risk factors of _calculate_risk_score; the first one, the capped
\* price volatility min((max - min) / avg * 100, 50), as a fraction num/den.
RiskVolatility(m) ==
    LET uk_price_range == m.max_uk_price - m.min_uk_price
        avg_price == m.avg_uk_price
    IN  IF avg_price > 0
        THEN IF uk_price_range * 100 <= 50 * avg_price
             THEN [num |-> uk_price_range * 100, den |-> avg_price]
             ELSE [num |-> 50, den |-> 1]
        ELSE [num |-> 50, den |-> 1]

RiskLiquidity(m) ==
    LET uk_count == m.uk_listing_count
    IN  IF uk_count < 5 THEN 40
        ELSE IF uk_count < 10 THEN 25
        ELSE IF uk_count < 20 THEN 15
        ELSE 5

RiskAge(m, year_now) ==
    LET vehicle_age == year_now - m.year
    IN  IF vehicle_age > 15 THEN 30
        ELSE IF vehicle_age > 10 THEN 20
        ELSE IF vehicle_age > 5 THEN 10
        ELSE 5

\* avg_condition_grade is in tenths of a grade.
RiskCondition(m) ==
    LET avg_condition == Val(m.avg_condition_grade)
    IN  IF avg_condition < 30 THEN 25
        ELSE IF avg_condition < 35 THEN 15
        ELSE IF avg_condition < 40 THEN 10
        ELSE 5

\* Mutant of _calculate_risk_score: the factors are summed, not averaged.
_calculate_risk_score_sum(m, year_now) ==
    IF m.avg_condition_grade = None THEN None
    ELSE LET v == RiskVolatility(m)
             rest == RiskLiquidity(m) + RiskAge(m, year_now) + RiskCondition(m)
         IN  Some(RoundHE(10 * (v.num + rest * v.den), v.den))

\* _calculate_risk_score: round(sum(risk_factors) / 4, 1), in tenths; None
\* when the comparison of a NULL avg_condition_grade raises TypeError.
_calculate_risk_score(m, year_now) ==
    IF m.avg_condition_grade = None THEN None
    ELSE LET v == RiskVolatility(m)
             rest == RiskLiquidity(m) + RiskAge(m, year_now) + RiskCondition(m)
         IN  Some(RoundHE(10 * (v.num + rest * v.den), 4 * v.den))

DemandListings(m) ==
    LET uk_count == m.uk_listing_count
    IN  IF uk_count > 50 THEN 90
        ELSE IF uk_count > 30 THEN 80
        ELSE IF uk_count > 20 THEN 70
        ELSE IF uk_count > 10 THEN 60
        ELSE 40

DemandDays(m) ==
    LET avg_days == m.avg_days_listed
    IN  IF avg_days < 14 THEN 90
        ELSE IF avg_days < 30 THEN 75
        ELSE IF avg_days < 60 THEN 60
        ELSE IF avg_days < 90 THEN 45
        ELSE 30

DemandFuel(m) ==
    LET fuel_type == Lower(m.fuel_type)
    IN  IF fuel_type \in {"hybrid", "electric"} THEN 85
        ELSE IF fuel_type = "petrol" THEN 70
        ELSE IF fuel_type = "diesel" THEN 60
        ELSE 50

\* _calculate_demand_score: round(sum(demand_factors) / 3, 1), in tenths.
_calculate_demand_score(m) ==
    Some(RoundHE(10 * (DemandListings(m) + DemandDays(m) + DemandFuel(m)), 3))

\* Mutant of _calculate_overall_score: a profit margin above the 50% cap
\* scores 0 instead of 100.
_calculate_overall_score_reset(profit_margin, roi, risk_score, demand_score, days_listed) ==
    LET profit_score ==
            IF 2 * profit_margin.num <= 100 * profit_margin.den
            THEN [num |-> 2 * profit_margin.num, den |-> profit_margin.den]
            ELSE [num |-> 0, den |-> 1]
        roi_score ==
            IF roi.num <= 100 * roi.den THEN roi ELSE [num |-> 100, den |-> 1]
        risk_score_inverted == 1000 - risk_score
        speed_score == Max(0, 100 - (days_listed * 2))
        den == profit_score.den * roi_score.den
    IN  RoundHE(25 * profit_score.num * roi_score.den
                  + 25 * roi_score.num * profit_score.den
                  + (2 * risk_score_inverted + 2 * demand_score + 10 * speed_score) * den,
                10 * den)

\* _calculate_overall_score, in tenths.  profit_margin and roi are the
\* unrounded percentages, given as fractions; risk_score and demand_score are
\* in tenths.  100 * overall = 25 * profit_score + 25 * roi_score
\*   + 20 * (100 - risk) + 20 * demand + 10 * speed_score.
_calculate_overall_score(profit_margin, roi, risk_score, demand_score, days_listed) ==
    LET \* min(profit_margin * 2, 100)
        profit_score ==
            IF 2 * profit_margin.num <= 100 * profit_margin.den
            THEN [num |-> 2 * profit_margin.num, den |-> profit_margin.den]
            ELSE [num |-> 100, den |-> 1]
        \* min(roi, 100)
        roi_score ==
            IF roi.num <= 100 * roi.den THEN roi ELSE [num |-> 100, den |-> 1]
        risk_score_inverted == 1000 - risk_score
        speed_score == Max(0, 100 - (days_listed * 2))
        den == profit_score.den * roi_score.den
    IN  RoundHE(25 * profit_score.num * roi_score.den
                  + 25 * roi_score.num * profit_score.den
                  + (2 * risk_score_inverted + 2 * demand_score + 10 * speed_score) * den,
                10 * den)

\* The guard of _calculate_individual_profit: a degenerate match is not scored.
DegenerateMatch(m) == m.avg_uk_price <= 0 \/ m.avg_landed_cost <= 0

\* Mutant of GrossProfit: the operands exchanged.
GrossProfit_reversed(m) == m.avg_landed_cost - m.avg_uk_price

GrossProfit(m) == m.avg_uk_price - m.avg_landed_cost

BestCaseProfit(m) == m.avg_uk_price - m.min_landed_cost

\* _calculate_individual_profit: None, or the result dict.  Money is rounded
\* to 2 decimals (exact here), percentages are in hundredths of a percent.
_calculate_individual_profit(m, year_now) ==
    LET avg_uk_price == m.avg_uk_price
        avg_landed_cost == m.avg_landed_cost
        min_landed_cost == m.min_landed_cost
        avg_days_listed == m.avg_days_listed
    IN  IF DegenerateMatch(m) THEN None
        ELSE
        LET gross_profit == GrossProfit(m)
            profit_margin_percent == [num |-> gross_profit * 100, den |-> avg_uk_price]
            roi_percent == [num |-> gross_profit * 100, den |-> avg_landed_cost]
            best_case_profit == BestCaseProfit(m)
            best_case_roi ==
                IF min_landed_cost > 0
                THEN RoundHE(best_case_profit * 10000, min_landed_cost)
                ELSE 0
            days_to_sell == Max(avg_days_listed, 1)
            annualized_roi ==
                RoundHE(gross_profit * 100 * 100 * 365, avg_landed_cost * days_to_sell)
            risk_score == _calculate_risk_score(m, year_now)
            demand_score == _calculate_demand_score(m)
        IN  IF risk_score = None \/ demand_score = None
            THEN None       \* the exception is caught: return None
            ELSE Some(
              [make |-> m.make, model |-> m.model, year |-> m.year,
               fuel_type |-> m.fuel_type,
               avg_uk_selling_price |-> avg_uk_price,
               avg_landed_cost |-> avg_landed_cost,
               min_landed_cost |-> min_landed_cost,
               gross_profit |-> gross_profit,
               profit_margin_percent |->
                   RoundHE(profit_margin_percent.num * 100, profit_margin_percent.den),
               roi_percent |-> RoundHE(roi_percent.num * 100, roi_percent.den),
               best_case_profit |-> best_case_profit,
               best_case_roi_percent |-> best_case_roi,
               annualized_roi_percent |-> annualized_roi,
               avg_days_to_sell |-> avg_days_listed,
               uk_listing_count |-> m.uk_listing_count,
               japan_auction_count |-> m.japan_auction_count,
               avg_condition_grade |-> Val(m.avg_condition_grade),
               risk_score |-> Val(risk_score),
               demand_score |-> Val(demand_score),
               overall_score |->
                   _calculate_overall_score(profit_margin_percent, roi_percent,
                       Val(risk_score), Val(demand_score), avg_days_listed)])

\* Mutant of AppendIfResult: the result is appended without the truth test.
AppendIfResult_unchecked(results, analysis) == Append(results, analysis)

\* calculate_profitability_matrix, lines 31-33: a truthy profit_analysis is
\* appended to profitability_results, None is skipped.
AppendIfResult(results, analysis) ==
    IF analysis # None THEN Append(results, Val(analysis)) ELSE results

\* Matched records that vary what the profit metrics and the overall score
\* read: prices and costs (degenerate ones too) and days on the market.
ProfitMatches ==
    { [make |-> "Toyota", model |-> "Prius", year |-> y, fuel_type |-> f,
       avg_uk_price |-> p, min_uk_price |-> p - w, max_uk_price |-> p + w,
       uk_listing_count |-> n, avg_days_listed |-> d,
       avg_landed_cost |-> c, min_landed_cost |-> c - s,
       japan_auction_count |-> 3, avg_condition_grade |-> g] :
         p \in {-100, 0, 100, 250}, w \in {0, 40},
         c \in {-50, 0, 40, 100, 400}, s \in {0, 30},
         d \in {0, 10, 20, 45, 75, 120},
         n \in {3, 60}, y \in {2005, 2024},
         g \in {None, Some(25), Some(45)}, f \in {"Hybrid", "lpg"} }

\* Matched records that vary what the risk and demand scores read: the UK
\* price range, the listing count, the model year, the condition grade, the
\* days on the market and the fuel type, over every tier of each.
RiskMatches ==
    { [make |-> "Toyota", model |-> "Prius", year |-> y, fuel_type |-> f,
       avg_uk_price |-> 100, min_uk_price |-> 100 - w, max_uk_price |-> 100 + w,
       uk_listing_count |-> n, avg_days_listed |-> d,
       avg_landed_cost |-> 80, min_landed_cost |-> 80,
       japan_auction_count |-> 3, avg_condition_grade |-> g] :
         w \in {0, 10, 25, 40},
         d \in {0, 10, 20, 45, 75, 120},
         n \in {0, 7, 15, 25, 35, 60}, y \in {2005, 2015, 2020, 2024},
         g \in {None, Some(25), Some(32), Some(37), Some(45)},
         f \in {"Hybrid", "electric", "PETROL", "diesel", "lpg"} }

CurrentYears == {2025, 2026}

InitProfit ==
    /\ current_year \in CurrentYears
    /\ match_data \in ProfitMatches \cup RiskMatches
    /\ pc_pc = "idle"
    /\ risk_ret = None
    /\ demand_ret = None
    /\ profit_analysis = None
    /\ profitability_results = <<>>
    /\ MatchIdle
    /\ CostIdle
    /\ ScoreIdle
    /\ FinalIdle
    /\ OverallIdle
    /\ ConfidenceIdle
    /\ DirectIdle

\* calculate_profitability_matrix for one matched record: the loop (lines
\* 30-33) over match_data with the calls _calculate_individual_profit makes,
\* and the sort (line 36).
calculate_profitability_matrix ==
    /\ pc_pc = "idle"
    /\ LET reached == ~DegenerateMatch(match_data)
           risk == IF reached THEN _calculate_risk_score(match_data, current_year)
                   ELSE None
           demand == IF reached /\ risk # None THEN _calculate_demand_score(match_data)
                     ELSE None
           analysis == _calculate_individual_profit(match_data, current_year)
       IN  /\ risk_ret' = risk
           /\ demand_ret' = demand
           /\ profit_analysis' = analysis
           /\ profitability_results' =
                  SortDescBy(AppendIfResult(profitability_results, analysis),
                             "profit_margin_percent")
    /\ pc_pc' = "done"
    /\ UNCHANGED <<current_year, match_data>>
    /\ UNCHANGED <<mm_vars, lc_vars, se_vars, fs_vars, os_vars, ci_vars, dc_vars>>

NextProfit == calculate_profitability_matrix

SpecProfit == InitProfit /\ [][NextProfit]_vars

-----------------------------------------------------------------------------
(* ProfitabilityCalculator._calculate_overall_score called directly *)

\* Percentages as fractions [num, den].
Percent(num, den) == [num |-> num, den |-> den]

ProfitMargins ==
    {Percent(-10, 1), Percent(50, 3), Percent(25, 1), Percent(50, 1), Percent(60, 1)}

Rois == {Percent(-20, 1), Percent(30, 1), Percent(100, 1), Percent(150, 1)}

\* The argument tuples of the calls; risk_score and demand_score in tenths.
OverallArgs ==
    [profit_margin : ProfitMargins, roi : Rois, risk_score : {200, 700},
     demand_score : {800}, days_listed : {15, 60}]

InitOverall ==
    /\ os_prev = None
    /\ os_last = None
    /\ MatchIdle
    /\ CostIdle
    /\ ProfitIdle
    /\ ScoreIdle
    /\ FinalIdle
    /\ ConfidenceIdle
    /\ DirectIdle

\* One call of _calculate_overall_score; the last two calls are remembered.
calculate_overall_score ==
    /\ \E a \in OverallArgs :
         os_last' = Some([args |-> a,
                          ret |-> _calculate_overall_score(a.profit_margin, a.roi,
                                      a.risk_score, a.demand_score, a.days_listed)])
    /\ os_prev' = os_last
    /\ UNCHANGED <<mm_vars, lc_vars, pc_vars, se_vars, fs_vars, ci_vars, dc_vars>>

NextOverall == calculate_overall_score

SpecOverall == InitOverall /\ [][NextOverall]_vars

-----------------------------------------------------------------------------
(* ScoringEngine: market intelligence, ML score, final score *)

\* ml_score is held in units of 10^-4 point, final_recommendation_score in
\* units of 10^-5 point.
MlScale == 10 ^ 4

FinalScale == 10 ^ 5

RECURSIVE SumSeq(_)
SumSeq(q) == IF q = <<>> THEN 0 ELSE Head(q) + SumSeq(Tail(q))

\* _get_registration_trends.  gov_data is a list of [make, model, month,
\* registration_count].
_get_registration_trends(make, model, gov_data) ==
    LET relevant == { i \in 1..Len(gov_data) :
                        /\ Lower(gov_data[i].make) = Lower(make)
                        /\ Lower(gov_data[i].model) = Lower(model) }
        kept == { i \in relevant :
                    gov_data[i].month # 0 /\ gov_data[i].registration_count # 0 }
        months == { gov_data[i].month : i \in kept }
        \* monthly_counts[month]: the count of the last item of that month
        count(mo) ==
            LET last == CHOOSE i \in kept :
                           /\ gov_data[i].month = mo
                           /\ \A j \in kept : gov_data[j].month = mo => j <= i
            IN  gov_data[last].registration_count
        n == Cardinality(months)
        first == CHOOSE mo \in months : \A o \in months : mo <= o
        final == CHOOSE mo \in months : \A o \in months : mo >= o
        RECURSIVE Total(_)
        Total(ms) == IF ms = {} THEN 0
                     ELSE LET mo == CHOOSE x \in ms : TRUE
                          IN  count(mo) + Total(ms \ {mo})
    IN  IF relevant = {}
        THEN [trend |-> "unknown", confidence |-> "low", data_points |-> 0]
        ELSE IF n < 3
        THEN [trend |-> "insufficient_data", confidence |-> "low", data_points |-> n]
        ELSE [trend |->
                 \* slope = (counts[-1] - counts[0]) / len(counts)
                 IF count(final) - count(first) > 10 * n THEN "growing"
                 ELSE IF count(final) - count(first) < -10 * n THEN "declining"
                 ELSE "stable",
              confidence |-> IF n > 6 THEN "high" ELSE "medium",
              data_points |-> n,
              total_registrations |-> Total(months)]

_check_ulez_compliance(year) ==
    IF year >= 2016 THEN [ulez_compliant |-> TRUE, charge_amount |-> 0]
    ELSE IF year >= 2006 THEN [ulez_compliant |-> TRUE, charge_amount |-> 0]
    ELSE [ulez_compliant |-> FALSE, charge_amount |-> 1250]

_analyze_seasonal_patterns(make) ==
    IF Lower(make) \in {"bmw", "mercedes", "audi", "lexus", "porsche"}
    THEN [seasonal_pattern |-> "winter_peak", seasonal_factor |-> 115]
    ELSE IF Lower(make) \in {"toyota", "honda", "nissan", "ford", "vauxhall"}
    THEN [seasonal_pattern |-> "spring_peak", seasonal_factor |-> 105]
    ELSE [seasonal_pattern |-> "unknown", seasonal_factor |-> 100]

\* The three database lookups.  A lookup is given by what db.fetchone did:
\* [kind |-> "row", ...] a row, [kind |-> "none"] no row (fetchone also
\* answers None when the query failed), [kind |-> "raise"] an exception in
\* the method's own try block.
_analyze_competition(lookup) ==
    IF lookup.kind = "raise"
    THEN [competition_level |-> "medium", competitor_count |-> 0]
    ELSE IF lookup.kind = "none"
    THEN [competition_level |-> "unknown", competitor_count |-> 0]
    ELSE [competition_level |->
             IF lookup.competitor_count < 5 THEN "low"
             ELSE IF lookup.competitor_count < 15 THEN "medium"
             ELSE "high",
          competitor_count |-> lookup.competitor_count]

_assess_market_volatility(lookup) ==
    IF lookup.kind = "raise" THEN [volatility |-> "medium"]
    ELSE IF lookup.kind = "row" /\ lookup.price_points > 5 /\ lookup.avg_price > 0
    THEN LET price_range == lookup.max_price - lookup.min_price
         IN  [volatility |->
                 \* volatility_ratio = (max_price - min_price) / avg_price
                 IF price_range * 100 < 15 * lookup.avg_price THEN "low"
                 ELSE IF price_range * 100 < 30 * lookup.avg_price THEN "medium"
                 ELSE "high",
              data_points |-> lookup.price_points]
    ELSE [volatility |-> "unknown", data_points |-> 0]

_assess_supply_chain_risk(lookup) ==
    IF lookup.kind = "raise" THEN [supply_risk |-> "medium"]
    ELSE IF lookup.kind = "none"
    THEN [supply_risk |-> "high", recent_auction_count |-> 0]
    ELSE [supply_risk |->
             IF lookup.auction_count >= 15 /\ lookup.auction_house_count >= 3 THEN "low"
             ELSE IF lookup.auction_count >= 8 /\ lookup.auction_house_count >= 2
             THEN "medium"
             ELSE "high",
          recent_auction_count |-> lookup.auction_count]

\* _enhance_with_market_intelligence: the six keys it adds to result.
_enhance_with_market_intelligence(result, lookups) ==
    Update(result,
        [registration_trend |->
             _get_registration_trends(result.make, result.model, lookups.gov_data),
         ulez_compliant |-> _check_ulez_compliance(result.year),
         seasonal_factors |-> _analyze_seasonal_patterns(result.make),
         competition_analysis |-> _analyze_competition(lookups.competition),
         market_volatility |-> _assess_market_volatility(lookups.volatility),
         supply_chain_risk |-> _assess_supply_chain_risk(lookups.supply)])

\* The encodings, in tenths.
_encode_trend(trend) ==
    CASE trend = "growing" -> 10
      [] trend = "stable" -> 5
      [] trend = "declining" -> 0
      [] trend = "unknown" -> 5
      [] trend = "insufficient_data" -> 3
      [] OTHER -> 5

_encode_competition(competition) ==
    CASE competition = "low" -> 10
      [] competition = "medium" -> 5
      [] competition = "high" -> 0
      [] competition = "unknown" -> 5
      [] OTHER -> 5

_encode_volatility(volatility) ==
    CASE volatility = "low" -> 10
      [] volatility = "medium" -> 5
      [] volatility = "high" -> 0
      [] volatility = "unknown" -> 5
      [] OTHER -> 5

_encode_supply_risk(supply_risk) ==
    CASE supply_risk = "low" -> 10
      [] supply_risk = "medium" -> 5
      [] supply_risk = "high" -> 0
      [] OTHER -> 5

\* _extract_features_for_ml: the 14 features.  Units: [1], [2] hundredths of a
\* percent; [3] days; [4], [5] counts; [6], [7] tenths of a point; [8] 0 or 1;
\* [9] hundredths (total_registrations / 100); [10], [11], [13], [14] tenths;
\* [12] years.
_extract_features_for_ml(result, year_now) ==
    << Get(result, "profit_margin_percent", 0),
       Get(result, "roi_percent", 0),
       Get(result, "avg_days_to_sell", 30),
       Get(result, "uk_listing_count", 0),
       Get(result, "japan_auction_count", 0),
       Get(result, "risk_score", 500),
       Get(result, "demand_score", 500),
       IF Get(Get(result, "ulez_compliant", EmptyDict), "ulez_compliant", FALSE)
           THEN 1 ELSE 0,
       Get(Get(result, "registration_trend", EmptyDict), "total_registrations", 0),
       _encode_trend(Get(Get(result, "registration_trend", EmptyDict),
                         "trend", "unknown")),
       _encode_competition(Get(Get(result, "competition_analysis", EmptyDict),
                               "competition_level", "medium")),
       year_now - Get(result, "year", year_now),
       _encode_volatility(Get(Get(result, "market_volatility", EmptyDict),
                              "volatility", "medium")),
       _encode_supply_risk(Get(Get(result, "supply_chain_risk", EmptyDict),
                               "supply_risk", "medium")) >>

\* 10^4 * ln(1 + n), rounded, for n = 0 .. 64.
Log1pTable ==
    << 0, 6931, 10986, 13863, 16094, 17918, 19459, 20794,
       21972, 23026, 23979, 24849, 25649, 26391, 27081, 27726,
       28332, 28904, 29444, 29957, 30445, 30910, 31355, 31781,
       32189, 32581, 32958, 33322, 33673, 34012, 34340, 34657,
       34965, 35264, 35553, 35835, 36109, 36376, 36636, 36889,
       37136, 37377, 37612, 37842, 38067, 38286, 38501, 38712,
       38918, 39120, 39318, 39512, 39703, 39890, 40073, 40254,
       40431, 40604, 40775, 40943, 41109, 41271, 41431, 41589,
       41744 >>

\* np.log1p(n), in units of 10^-4.
Log1p(n) == Log1pTable[n + 1]

\* The weights of _calculate_ml_score, in hundredths.
MlWeights == << 20, 20, 10, 5, 5, 10, 10, 5, 3, 5, 3, 2, 1, 1 >>

\* The normalized features of _calculate_ml_score, in hundredths of a point.
NormalizedFeatures(features) ==
    << Min(10000, features[1] * 2),
       Min(10000, features[2]),
       Max(0, 10000 - features[3] * 100 * 2),
       Min(10000, RoundHE(Log1p(features[4]) * 20, 100)),
       Min(10000, RoundHE(Log1p(features[5]) * 25, 100)),
       10000 - features[6] * 10,
       features[7] * 10,
       features[8] * 100 * 100,
       features[9] * 100,
       features[10] * 10 * 100,
       features[11] * 10 * 100,
       \* vehicle age: max(0, 100 - (age * 100) * 5)
       Max(0, 10000 - (features[12] * 100 * 100) * 5),
       features[13] * 10 * 100,
       features[14] * 10 * 100 >>

\* _calculate_ml_score: the rule-based weighted blend, clamped to [0,100].
_calculate_ml_score(features) ==
    IF Len(features) < 14 THEN 50 * MlScale
    ELSE LET nf == NormalizedFeatures(features)
             score == SumSeq([i \in 1..14 |-> nf[i] * MlWeights[i]])
         IN  Max(0, Min(100 * MlScale, score))

\* _calculate_ml_score_for_result.  ml_model is "RandomForestRegressor", the
\* regressor __init__ builds and nothing ever fits, or "None" when building
\* it failed.  Truth-testing the unfitted regressor raises (its __len__ reads
\* estimators_, which only fit() sets), and so would predict(): the except
\* branch returns result.get('overall_score', 50.0).
_calculate_ml_score_for_result(result, model, year_now) ==
    LET features == _extract_features_for_ml(result, year_now)
    IN  IF model # "None"
        THEN Get(result, "overall_score", 500) * (MlScale \div 10)
        ELSE _calculate_ml_score(features)

\* Mutant of BaseScore: the two weights exchanged.
BaseScore_swapped(overall_score, ml_score) ==
    overall_score * 4 * (FinalScale \div 100)
        + ml_score * 6 * (FinalScale \div (10 * MlScale))

\* base_score = (overall_score * 0.6) + (ml_score * 0.4), overall_score in
\* tenths, ml_score in 1/MlScale, the result in 1/FinalScale.
BaseScore(overall_score, ml_score) ==
    overall_score * 6 * (FinalScale \div 100)
        + ml_score * 4 * (FinalScale \div (10 * MlScale))

\* The body of _calculate_final_score up to final_score.
FinalScoreSum(result) ==
    LET overall_score == Get(result, "overall_score", 500)
        ml_score == Get(result, "ml_score", 50 * MlScale)
        \* (overall_score * 0.6) + (ml_score * 0.4)
        base_score == BaseScore(overall_score, ml_score)
        ulez == Get(Get(result, "ulez_compliant", EmptyDict), "ulez_compliant", FALSE)
        trend == Get(Get(result, "registration_trend", EmptyDict), "trend", "unknown")
        competition == Get(Get(result, "competition_analysis", EmptyDict),
                           "competition_level", "medium")
        volatility == Get(Get(result, "market_volatility", EmptyDict),
                          "volatility", "medium")
        supply_risk == Get(Get(result, "supply_chain_risk", EmptyDict),
                           "supply_risk", "medium")
        bonus_factors ==
            (IF ulez THEN 5 ELSE 0)
            + (IF trend = "growing" THEN 3 ELSE 0)
            + (IF competition = "low" THEN 4 ELSE 0)
            + (IF volatility = "low" THEN 2 ELSE 0)
            + (IF supply_risk = "low" THEN 3 ELSE 0)
        penalty_factors ==
            (IF ulez THEN 0 ELSE 3)
            + (IF trend = "declining" THEN 5 ELSE 0)
            + (IF competition = "high" THEN 3 ELSE 0)
            + (IF volatility = "high" THEN 4 ELSE 0)
            + (IF supply_risk = "high" THEN 5 ELSE 0)
    IN  base_score + (bonus_factors - penalty_factors) * FinalScale

ClampOff(final_score) == final_score

\* _calculate_final_score: max(0, min(100, final_score)).
Clamp100(final_score) == Max(0, Min(100 * FinalScale, final_score))

_calculate_final_score(result) == Clamp100(FinalScoreSum(result))

\* Mutant of _generate_recommendations: a score of exactly 70 is not yet
\* 'Recommended'.
_generate_recommendations_above70(result) ==
    LET final_score == Get(result, "final_recommendation_score", 50 * FinalScale)
    IN  IF final_score >= 80 * FinalScale
        THEN [recommendation_category |-> "Highly Recommended", priority |-> "High"]
        ELSE IF final_score > 70 * FinalScale
        THEN [recommendation_category |-> "Recommended", priority |-> "High"]
        ELSE IF final_score >= 60 * FinalScale
        THEN [recommendation_category |-> "Consider", priority |-> "Medium"]
        ELSE IF final_score >= 50 * FinalScale
        THEN [recommendation_category |-> "Caution", priority |-> "Low"]
        ELSE [recommendation_category |-> "Not Recommended", priority |-> "None"]

\* _generate_recommendations.
_generate_recommendations(result) ==
    LET final_score == Get(result, "final_recommendation_score", 50 * FinalScale)
    IN  IF final_score >= 80 * FinalScale
        THEN [recommendation_category |-> "Highly Recommended", priority |-> "High"]
        ELSE IF final_score >= 70 * FinalScale
        THEN [recommendation_category |-> "Recommended", priority |-> "High"]
        ELSE IF final_score >= 60 * FinalScale
        THEN [recommendation_category |-> "Consider", priority |-> "Medium"]
        ELSE IF final_score >= 50 * FinalScale
        THEN [recommendation_category |-> "Caution", priority |-> "Low"]
        ELSE [recommendation_category |-> "Not Recommended", priority |-> "None"]

\* Mutant of ConfidenceLevel: High from an average of 0.80.
ConfidenceLevel_raised(total) ==
    IF total * 100 >= 80 * 30 THEN "High"
    ELSE IF total * 100 >= 55 * 30 THEN "Medium"
    ELSE "Low"

\* The confidence level of _calculate_confidence_interval (lines 644-652) from
\* the sum of the three factors in tenths: avg_confidence = total / 30,
\* compared with 0.75 and 0.55 on the exact quotient.
ConfidenceLevel(total) ==
    IF total * 100 >= 75 * 30 THEN "High"
    ELSE IF total * 100 >= 55 * 30 THEN "Medium"
    ELSE "Low"

\* Mutant of _calculate_confidence_interval: the bounds are score -/+ margin,
\* not clamped.
_calculate_confidence_interval_unclamped(result) ==
    LET uk_count == Get(result, "uk_listing_count", 0)
        japan_count == Get(result, "japan_auction_count", 0)
        quantity == IF uk_count >= 10 /\ japan_count >= 5 THEN 9
                    ELSE IF uk_count >= 5 /\ japan_count >= 3 THEN 7
                    ELSE 4
        reg_confidence == Get(Get(result, "registration_trend", EmptyDict),
                              "confidence", "low")
        intelligence == IF reg_confidence = "high" THEN 8
                        ELSE IF reg_confidence = "medium" THEN 6
                        ELSE 3
        volatility == Get(Get(result, "market_volatility", EmptyDict),
                          "volatility", "unknown")
        stability == IF volatility = "low" THEN 8
                     ELSE IF volatility = "medium" THEN 6
                     ELSE 3
        total == quantity + intelligence + stability
        confidence_level == ConfidenceLevel(total)
        margin_of_error == IF confidence_level = "High" THEN 5 * FinalScale
                           ELSE IF confidence_level = "Medium" THEN 10 * FinalScale
                           ELSE 15 * FinalScale
        final_score == Get(result, "final_recommendation_score", 50 * FinalScale)
    IN  [confidence_level |-> confidence_level,
         confidence_score |-> RoundHE(total * 100, 3),
         margin_of_error |-> margin_of_error,
         lower_bound |-> final_score - margin_of_error,
         upper_bound |-> final_score + margin_of_error]

\* _calculate_confidence_interval.  The confidence factors are in tenths;
\* confidence_score is in tenths of a point, margin_of_error and the bounds
\* in 1/FinalScale of a point.
_calculate_confidence_interval(result) ==
    LET uk_count == Get(result, "uk_listing_count", 0)
        japan_count == Get(result, "japan_auction_count", 0)
        quantity == IF uk_count >= 10 /\ japan_count >= 5 THEN 9
                    ELSE IF uk_count >= 5 /\ japan_count >= 3 THEN 7
                    ELSE 4
        reg_confidence == Get(Get(result, "registration_trend", EmptyDict),
                              "confidence", "low")
        intelligence == IF reg_confidence = "high" THEN 8
                        ELSE IF reg_confidence = "medium" THEN 6
                        ELSE 3
        volatility == Get(Get(result, "market_volatility", EmptyDict),
                          "volatility", "unknown")
        stability == IF volatility = "low" THEN 8
                     ELSE IF volatility = "medium" THEN 6
                     ELSE 3
        total == quantity + intelligence + stability
        confidence_level == ConfidenceLevel(total)
        margin_of_error == IF confidence_level = "High" THEN 5 * FinalScale
                           ELSE IF confidence_level = "Medium" THEN 10 * FinalScale
                           ELSE 15 * FinalScale
        final_score == Get(result, "final_recommendation_score", 50 * FinalScale)
    IN  [confidence_level |-> confidence_level,
         confidence_score |-> RoundHE(total * 100, 3),
         margin_of_error |-> margin_of_error,
         lower_bound |-> Max(0, final_score - margin_of_error),
         upper_bound |-> Min(100 * FinalScale, final_score + margin_of_error)]

\* Mutant of When: the message is given whatever the condition.
When_always(cond, x) == <<x>>

\* The list [x] when cond holds, [] otherwise.
When(cond, x) == IF cond THEN <<x>> ELSE <<>>

_generate_action_items(result) ==
    LET seasonal_pattern == Get(Get(result, "seasonal_factors", EmptyDict),
                                "seasonal_pattern", "None")
    IN  When(Get(result, "profit_margin_percent", 0) > 2500,
             "Prioritize this vehicle - exceptional profit potential identified")
        \o When(Get(result, "avg_days_to_sell", 60) < 15,
             "Fast-moving vehicle - consider immediate action to secure inventory")
        \o When(Get(Get(result, "competition_analysis", EmptyDict),
                     "competition_level", "None") = "low",
             "Low competition detected - opportunity for market leadership")
        \o When(Get(Get(result, "ulez_compliant", EmptyDict), "ulez_compliant", FALSE),
             "ULEZ compliant - market this as a key selling point")
        \o When(seasonal_pattern = "winter_peak",
             "Consider timing imports for October-December peak season")
        \o When(seasonal_pattern = "spring_peak",
             "Plan imports for February-April optimal selling period")
        \o When(Get(Get(result, "supply_chain_risk", EmptyDict),
                     "supply_risk", "None") = "low",
             "Stable supply chain - consider volume purchasing strategy")

_generate_risk_warnings(result) ==
    When(Get(Get(result, "market_volatility", EmptyDict), "volatility", "None") = "high",
         "High price volatility detected - monitor market closely")
    \o When(Get(Get(result, "supply_chain_risk", EmptyDict),
                 "supply_risk", "None") = "high",
         "Limited auction supply - secure inventory quickly when available")
    \o When(Get(Get(result, "competition_analysis", EmptyDict),
                 "competition_level", "None") = "high",
         "High competition - ensure competitive pricing strategy")
    \o When(Get(Get(result, "registration_trend", EmptyDict), "trend", "None")
                 = "declining",
         "Declining registration trend - monitor demand carefully")
    \o When(Get(result, "risk_score", 500) > 700,
         "High overall risk score - consider additional due diligence")
    \o When(Get(result, "avg_days_to_sell", 30) > 60,
         "Slow-selling vehicle - ensure adequate cash flow planning")

_generate_timing_recommendations(result) ==
    LET seasonal_pattern == Get(Get(result, "seasonal_factors", EmptyDict),
                                "seasonal_pattern", "None")
        competition == Get(Get(result, "competition_analysis", EmptyDict),
                           "competition_level", "medium")
        supply_risk == Get(Get(result, "supply_chain_risk", EmptyDict),
                           "supply_risk", "medium")
    IN  [import_timing |->
             IF seasonal_pattern = "winter_peak"
             THEN "Import in September-October for winter sales"
             ELSE IF seasonal_pattern = "spring_peak"
             THEN "Import in January-February for spring sales"
             ELSE "Year-round importing suitable",
         selling_season |->
             IF seasonal_pattern = "winter_peak"
             THEN "November-January peak selling period"
             ELSE IF seasonal_pattern = "spring_peak"
             THEN "March-May optimal selling period"
             ELSE "No strong seasonal pattern identified",
         market_entry |->
             IF competition = "low" THEN "Enter immediately - low competition window"
             ELSE IF competition = "high"
             THEN "Wait for market opportunity or ensure differentiation"
             ELSE "Standard market entry timing acceptable",
         inventory_strategy |->
             IF supply_risk = "high" THEN "Secure inventory immediately when available"
             ELSE IF supply_risk = "low"
             THEN "Flexible timing - adequate supply available"
             ELSE "Monitor supply levels - moderate availability"]


\* The body of the for loop of analyze_profitability (lines 55-73).
ScoreResult(result, lookups, model, year_now) ==
    LET e1 == _enhance_with_market_intelligence(result, lookups)
        e2 == Update(e1, [ml_score |->
                              _calculate_ml_score_for_result(e1, model, year_now)])
        e3 == Update(e2, [final_recommendation_score |-> _calculate_final_score(e2)])
        e4 == Update(e3, _generate_recommendations(e3))
        e5 == Update(e4, _calculate_confidence_interval(e4))
    IN  Update(e5, [action_items |-> _generate_action_items(e5),
                    risk_warnings |-> _generate_risk_warnings(e5),
                    timing_recommendations |-> _generate_timing_recommendations(e5)])

\* The row _store_analysis_results inserts for a result.
AnalysisRow(result) ==
    [make |-> result.make, model |-> result.model, year |-> result.year,
     fuel_type |-> result.fuel_type,
     avg_uk_selling_price |-> result.avg_uk_selling_price,
     avg_landed_cost |-> result.avg_landed_cost,
     gross_profit |-> result.gross_profit,
     profit_margin_percent |-> result.profit_margin_percent,
     roi_percent |-> result.roi_percent,
     avg_days_to_sell |-> result.avg_days_to_sell,
     risk_score |-> result.risk_score,
     demand_score |-> result.demand_score,
     overall_score |-> result.overall_score,
     ml_score |-> result.ml_score,
     final_recommendation_score |-> result.final_recommendation_score,
     recommendation_category |-> result.recommendation_category,
     priority |-> result.priority,
     confidence_level |-> result.confidence_level,
     analysis_data |->
         [registration_trend |-> result.registration_trend,
          ulez_compliant |-> result.ulez_compliant,
          seasonal_factors |-> result.seasonal_factors,
          competition_analysis |-> result.competition_analysis,
          market_volatility |-> result.market_volatility,
          supply_chain_risk |-> result.supply_chain_risk,
          action_items |-> result.action_items,
          risk_warnings |-> result.risk_warnings,
          timing_recommendations |-> result.timing_recommendations,
          confidence_metrics |->
              [confidence_level |-> result.confidence_level,
               confidence_score |-> result.confidence_score,
               margin_of_error |-> result.margin_of_error]]]

\* _store_analysis_results on the engine's connection.  failed = 0: the
\* DELETE raised; failed = k in 1..Len(results): the k-th INSERT raised;
\* failed = Len(results) + 1: nothing raised and commit() ran.  The except
\* branch only logs: what was executed before the failure stays in the
\* connection's open transaction.
_store_analysis_results(table, results, failed) ==
    IF failed = 0 THEN table
    ELSE IF failed <= Len(results)
    THEN [table EXCEPT !.view = [i \in 1..(failed - 1) |-> AnalysisRow(results[i])]]
    ELSE [view |-> [i \in 1..Len(results) |-> AnalysisRow(results[i])],
          committed |-> [i \in 1..Len(results) |-> AnalysisRow(results[i])]]

\* Matched records behind the base results of a run: a profitable hybrid, a
\* model that sells below its landed cost, and an old fast-selling diesel.
ScoreMatches ==
    { [make |-> "Toyota", model |-> "Prius", year |-> 2020, fuel_type |-> "Hybrid",
       avg_uk_price |-> 250, min_uk_price |-> 240, max_uk_price |-> 260,
       uk_listing_count |-> 12, avg_days_listed |-> 20,
       avg_landed_cost |-> 200, min_landed_cost |-> 190,
       japan_auction_count |-> 6, avg_condition_grade |-> Some(45)],
      [make |-> "Toyota", model |-> "Prius", year |-> 2015, fuel_type |-> "PETROL",
       avg_uk_price |-> 100, min_uk_price |-> 60, max_uk_price |-> 140,
       uk_listing_count |-> 7, avg_days_listed |-> 75,
       avg_landed_cost |-> 400, min_landed_cost |-> 370,
       japan_auction_count |-> 3, avg_condition_grade |-> Some(25)],
      [make |-> "BMW", model |-> "X5", year |-> 2005, fuel_type |-> "Diesel",
       avg_uk_price |-> 250, min_uk_price |-> 250, max_uk_price |-> 250,
       uk_listing_count |-> 60, avg_days_listed |-> 10,
       avg_landed_cost |-> 100, min_landed_cost |-> 100,
       japan_auction_count |-> 20, avg_condition_grade |-> Some(37)] }

\* The results _calculate_individual_profit gives for them.
BaseResults(year_now) ==
    { Val(_calculate_individual_profit(m, year_now)) : m \in ScoreMatches }

MaxResults == 2

\* What calculate_profitability_matrix can return: results of distinct
\* matches, sorted by profit_margin_percent, highest first.
BaseResultLists(year_now) ==
    { q \in UNION { [1..n -> BaseResults(year_now)] : n \in 0..MaxResults } :
        \A i \in 1..Len(q) : \A j \in 1..Len(q) :
            i < j => q[i].profit_margin_percent > q[j].profit_margin_percent }

\* Government registration data: none, three months growing for the Prius,
\* three months declining for it (make and model in another letter case).
GovData ==
    { <<>>,
      << [make |-> "Toyota", model |-> "Prius", month |-> 1, registration_count |-> 10],
         [make |-> "Toyota", model |-> "Prius", month |-> 2, registration_count |-> 50],
         [make |-> "Toyota", model |-> "Prius", month |-> 3, registration_count |-> 100] >>,
      << [make |-> "TOYOTA", model |-> "prius", month |-> 3, registration_count |-> 20],
         [make |-> "TOYOTA", model |-> "prius", month |-> 1, registration_count |-> 90],
         [make |-> "TOYOTA", model |-> "prius", month |-> 2, registration_count |-> 50] >> }

\* What the three lookups of one vehicle gave.  db.fetchone answers a row, or
\* None when the query failed (it never raises).
NoRow == [kind |-> "none"]

CompetitionRow(n) == [kind |-> "row", competitor_count |-> n]

VolatilityRow(n, lo, hi) ==
    [kind |-> "row", price_points |-> n, avg_price |-> 100,
     min_price |-> lo, max_price |-> hi]

SupplyRow(n, houses) ==
    [kind |-> "row", auction_count |-> n, auction_house_count |-> houses]

MarketLookups ==
    { [competition |-> NoRow, volatility |-> NoRow, supply |-> NoRow],
      [competition |-> CompetitionRow(2), volatility |-> VolatilityRow(8, 95, 105),
       supply |-> SupplyRow(20, 3)],
      [competition |-> CompetitionRow(20), volatility |-> VolatilityRow(8, 80, 120),
       supply |-> SupplyRow(0, 0)],
      [competition |-> CompetitionRow(10), volatility |-> VolatilityRow(8, 90, 110),
       supply |-> SupplyRow(10, 2)],
      [competition |-> CompetitionRow(2), volatility |-> VolatilityRow(3, 95, 105),
       supply |-> NoRow],
      [competition |-> NoRow, volatility |-> VolatilityRow(8, 80, 120),
       supply |-> SupplyRow(20, 3)],
      \* the aggregates over no row at all
      [competition |-> CompetitionRow(0), volatility |-> VolatilityRow(0, 0, 0),
       supply |-> SupplyRow(0, 0)] }

\* A row an earlier run left in the table.
OldRow == [make |-> "Honda", model |-> "Fit", final_recommendation_score |-> 0]

InitScore ==
    /\ ml_model \in {"RandomForestRegressor", "None"}
    /\ se_pc = "idle"
    /\ se_year = 0
    /\ se_gov_data = <<>>
    /\ base_results = <<>>
    /\ enhanced_results = <<>>
    /\ se_found = <<>>
    /\ profitability_analysis \in
           { [view |-> t, committed |-> t] : t \in {<<>>, <<OldRow>>} }
    /\ se_ret = None
    /\ MatchIdle
    /\ CostIdle
    /\ ProfitIdle
    /\ FinalIdle
    /\ OverallIdle
    /\ ConfidenceIdle
    /\ DirectIdle

\* analyze_profitability up to the for loop (lines 46-52).
analyze_profitability ==
    /\ se_pc = "idle"
    /\ se_pc' = "loop"
    /\ se_year' \in CurrentYears
    /\ se_gov_data' \in GovData
    /\ base_results' \in BaseResultLists(se_year')
    /\ enhanced_results' = <<>>
    /\ se_found' = <<>>
    /\ UNCHANGED <<ml_model, profitability_analysis, se_ret>>
    /\ UNCHANGED <<mm_vars, lc_vars, pc_vars, fs_vars, os_vars, ci_vars, dc_vars>>

\* One iteration of the for loop (lines 54-75).
score_result ==
    /\ se_pc = "loop"
    /\ Len(enhanced_results) < Len(base_results)
    /\ \E found \in MarketLookups :
         LET result == base_results[Len(enhanced_results) + 1]
             lookups == [gov_data |-> se_gov_data, competition |-> found.competition,
                         volatility |-> found.volatility, supply |-> found.supply]
         IN  /\ enhanced_results' =
                   Append(enhanced_results,
                          ScoreResult(result, lookups, ml_model, se_year))
             /\ se_found' = Append(se_found, found)
    /\ UNCHANGED <<ml_model, se_pc, se_year, se_gov_data, base_results,
                   profitability_analysis, se_ret>>
    /\ UNCHANGED <<mm_vars, lc_vars, pc_vars, fs_vars, os_vars, ci_vars, dc_vars>>

\* After the loop: sort, store, return (lines 77-84).
return_enhanced_results ==
    /\ se_pc = "loop"
    /\ Len(enhanced_results) = Len(base_results)
    /\ LET sorted == SortDescBy(enhanced_results, "final_recommendation_score")
       IN  /\ enhanced_results' = sorted
           /\ \E failed \in 0..(Len(sorted) + 1) :
                profitability_analysis' =
                    _store_analysis_results(profitability_analysis, sorted, failed)
           /\ se_ret' = Some(sorted)
    /\ se_pc' = "done"
    /\ UNCHANGED <<ml_model, se_year, se_gov_data, base_results, se_found>>
    /\ UNCHANGED <<mm_vars, lc_vars, pc_vars, fs_vars, os_vars, ci_vars, dc_vars>>

NextScore == analyze_profitability \/ score_result \/ return_enhanced_results

SpecScore == InitScore /\ [][NextScore]_vars

-----------------------------------------------------------------------------
(* ScoringEngine._calculate_final_score called on its own *)

\* The dicts with the key absent, or present with one of the values.
Optional(key, values) == {EmptyDict} \cup { key :> v : v \in values }

\* Results as a caller may build them: scores below, inside and above
\* [0,100], every signal absent, empty, or at a tier.
FinalResults ==
    { o @@ m @@ u @@ t @@ c @@ v @@ r :
        o \in Optional("overall_score", {-1444, 0, 553, 1000, 1500}),
        m \in Optional("ml_score", {-1444000, 0, 603075, 100 * MlScale, 150 * MlScale}),
        u \in Optional("ulez_compliant",
                       {EmptyDict, [ulez_compliant |-> TRUE], [ulez_compliant |-> FALSE]}),
        t \in Optional("registration_trend",
                       {[trend |-> "growing"], [trend |-> "declining"],
                        [trend |-> "stable"]}),
        c \in Optional("competition_analysis",
                       {[competition_level |-> "low"], [competition_level |-> "high"],
                        [competition_level |-> "unknown"]}),
        v \in Optional("market_volatility",
                       {[volatility |-> "low"], [volatility |-> "high"],
                        [volatility |-> "medium"]}),
        r \in Optional("supply_chain_risk",
                       {[supply_risk |-> "low"], [supply_risk |-> "high"],
                        [supply_risk |-> "medium"]}) }

InitFinal ==
    /\ fs_pc = "idle"
    /\ fs_result \in FinalResults
    /\ fs_ret = None
    /\ MatchIdle
    /\ CostIdle
    /\ ProfitIdle
    /\ ScoreIdle
    /\ OverallIdle
    /\ ConfidenceIdle
    /\ DirectIdle

calculate_final_score ==
    /\ fs_pc = "idle"
    /\ fs_ret' = Some(_calculate_final_score(fs_result))
    /\ fs_pc' = "done"
    /\ UNCHANGED fs_result
    /\ UNCHANGED <<mm_vars, lc_vars, pc_vars, se_vars, os_vars, ci_vars, dc_vars>>

NextFinal == calculate_final_score

SpecFinal == InitFinal /\ [][NextFinal]_vars

-----------------------------------------------------------------------------
(* ScoringEngine._calculate_confidence_interval called on its own *)

\* Results as a caller may build them: the two counts below, at and above
\* the thresholds 5/3 and 10/5, the two signals absent, empty or at a tier.
ConfidenceResults ==
    { u @@ j @@ t @@ v @@ f :
        u \in Optional("uk_listing_count", {2, 5, 9, 10, 20}),
        j \in Optional("japan_auction_count", {1, 3, 4, 5, 20}),
        t \in Optional("registration_trend",
                       {EmptyDict, [confidence |-> "high"], [confidence |-> "medium"],
                        [confidence |-> "low"]}),
        v \in Optional("market_volatility",
                       {EmptyDict, [volatility |-> "low"], [volatility |-> "medium"],
                        [volatility |-> "high"], [volatility |-> "unknown"]}),
        f \in Optional("final_recommendation_score",
                       {0, 3 * FinalScale, 75 * FinalScale, 98 * FinalScale}) }

InitConfidence ==
    /\ ci_pc = "idle"
    /\ ci_result \in ConfidenceResults
    /\ ci_ret = EmptyDict
    /\ MatchIdle
    /\ CostIdle
    /\ ProfitIdle
    /\ ScoreIdle
    /\ FinalIdle
    /\ OverallIdle
    /\ DirectIdle

calculate_confidence_interval ==
    /\ ci_pc = "idle"
    /\ ci_ret' = _calculate_confidence_interval(ci_result)
    /\ ci_pc' = "done"
    /\ UNCHANGED ci_result
    /\ UNCHANGED <<mm_vars, lc_vars, pc_vars, se_vars, fs_vars, os_vars, dc_vars>>

NextConfidence == calculate_confidence_interval

SpecConfidence == InitConfidence /\ [][NextConfidence]_vars

-----------------------------------------------------------------------------
(* ScoringEngine._generate_recommendations called on its own *)

\* Scores in [0,100], in 1/FinalScale: every whole score, the value just
\* below each threshold, and a result without the key.
RecommendScores ==
    { k * FinalScale : k \in 0..100 }
        \cup { k * FinalScale - 1 : k \in {50, 60, 70, 80} }

RecommendResults ==
    {EmptyDict} \cup { "final_recommendation_score" :> x : x \in RecommendScores }

InitRecommend ==
    /\ dc_pc = "idle"
    /\ dc_arg \in RecommendResults
    /\ dc_log = <<>>
    /\ dc_ret = None
    /\ MatchIdle
    /\ CostIdle
    /\ ProfitIdle
    /\ ScoreIdle
    /\ FinalIdle
    /\ OverallIdle
    /\ ConfidenceIdle

generate_recommendations ==
    /\ dc_pc = "idle"
    /\ dc_ret' = Some(_generate_recommendations(dc_arg))
    /\ dc_pc' = "done"
    /\ UNCHANGED <<dc_arg, dc_log>>
    /\ UNCHANGED <<mm_vars, lc_vars, pc_vars, se_vars, fs_vars, os_vars, ci_vars>>

NextRecommend == generate_recommendations

SpecRecommend == InitRecommend /\ [][NextRecommend]_vars

-----------------------------------------------------------------------------
(* ScoringEngine._generate_action_items and _generate_risk_warnings called
   on their own *)

\* Results as a caller may build them: margin (hundredths of a percent) and
\* days around the triggers 25 and 15 / 60, risk_score (tenths) around 70,
\* every signal absent or at a tier.
InsightResults ==
    { p @@ d @@ k @@ c @@ v @@ r @@ t :
        p \in Optional("profit_margin_percent", {2000, 2500, 2501, 3000}),
        d \in Optional("avg_days_to_sell", {10, 14, 15, 60, 61}),
        k \in Optional("risk_score", {500, 700, 701}),
        c \in Optional("competition_analysis",
                       {[competition_level |-> "low"], [competition_level |-> "medium"],
                        [competition_level |-> "high"]}),
        v \in Optional("market_volatility",
                       {[volatility |-> "low"], [volatility |-> "high"]}),
        r \in Optional("supply_chain_risk",
                       {[supply_risk |-> "low"], [supply_risk |-> "high"]}),
        t \in Optional("registration_trend",
                       {[trend |-> "growing"], [trend |-> "declining"]}) }

InitInsights ==
    /\ dc_pc = "idle"
    /\ dc_arg \in InsightResults
    /\ dc_log = <<>>
    /\ dc_ret = None
    /\ MatchIdle
    /\ CostIdle
    /\ ProfitIdle
    /\ ScoreIdle
    /\ FinalIdle
    /\ OverallIdle
    /\ ConfidenceIdle

generate_action_items ==
    /\ dc_pc = "idle"
    /\ dc_ret' = Some(_generate_action_items(dc_arg))
    /\ dc_log' = <<"_generate_action_items">>
    /\ dc_pc' = "done"
    /\ UNCHANGED dc_arg
    /\ UNCHANGED <<mm_vars, lc_vars, pc_vars, se_vars, fs_vars, os_vars, ci_vars>>

generate_risk_warnings ==
    /\ dc_pc = "idle"
    /\ dc_ret' = Some(_generate_risk_warnings(dc_arg))
    /\ dc_log' = <<"_generate_risk_warnings">>
    /\ dc_pc' = "done"
    /\ UNCHANGED dc_arg
    /\ UNCHANGED <<mm_vars, lc_vars, pc_vars, se_vars, fs_vars, os_vars, ci_vars>>

NextInsights == generate_action_items \/ generate_risk_warnings

SpecInsights == InitInsights /\ [][NextInsights]_vars

-----------------------------------------------------------------------------
(* A whole batch: calculate_profitability_matrix over the matched records,
   then the loop of analyze_profitability over its results *)

MaxMatches == 2

\* The loop of calculate_profitability_matrix (lines 30-33): the truthy
\* results of _calculate_individual_profit, in the order of matched.
RECURSIVE ProfitLoop(_, _)
ProfitLoop(matched, year_now) ==
    IF matched = <<>> THEN <<>>
    ELSE LET analysis == _calculate_individual_profit(Head(matched), year_now)
         IN  AppendIfResult(<<>>, analysis) \o ProfitLoop(Tail(matched), year_now)

\* Mutant of ProfitabilityMatrix: a vehicle whose scoring failed empties the
\* batch.
ProfitabilityMatrix_abort(matched, year_now) ==
    IF \E i \in 1..Len(matched) : _calculate_individual_profit(matched[i], year_now) = None
    THEN <<>>
    ELSE SortDescBy(ProfitLoop(matched, year_now), "profit_margin_percent")

\* calculate_profitability_matrix after _match_uk_japan_data returned matched:
\* the loop and the sort (line 36).
ProfitabilityMatrix(matched, year_now) ==
    SortDescBy(ProfitLoop(matched, year_now), "profit_margin_percent")

\* The loop of analyze_profitability (lines 54-75) with the same lookup
\* answers for every vehicle.
RECURSIVE ScoreLoop(_, _, _, _)
ScoreLoop(results, lookups, model, year_now) ==
    IF results = <<>> THEN <<>>
    ELSE <<ScoreResult(Head(results), lookups, model, year_now)>>
             \o ScoreLoop(Tail(results), lookups, model, year_now)

\* Matched records of a batch: the three scorable vehicles, one whose
\* condition grades are all non-numeric (NULL average: _calculate_risk_score
\* raises), and one with no landed cost (not scored).
BatchMatches ==
    ScoreMatches
      \cup { [make |-> "Honda", model |-> "Fit", year |-> 2020, fuel_type |-> "Hybrid",
              avg_uk_price |-> 250, min_uk_price |-> 240, max_uk_price |-> 260,
              uk_listing_count |-> 12, avg_days_listed |-> 20,
              avg_landed_cost |-> c, min_landed_cost |-> c,
              japan_auction_count |-> 6, avg_condition_grade |-> g] :
                 <<c, g>> \in {<<200, None>>, <<0, Some(45)>>} }

BatchLists == UNION { [1..n -> BatchMatches] : n \in 0..MaxMatches }

InitBatch ==
    /\ uk_market_data = EmptyDict
    /\ japan_auction_data = EmptyDict
    /\ mm_pc = "done"
    /\ mm_make = None
    /\ mm_model = None
    /\ matched_data \in BatchLists
    /\ current_year \in CurrentYears
    /\ match_data = NoMatch
    /\ pc_pc = "idle"
    /\ risk_ret = None
    /\ demand_ret = None
    /\ profit_analysis = None
    /\ profitability_results = <<>>
    /\ ml_model \in {"RandomForestRegressor", "None"}
    /\ se_pc = "idle"
    /\ se_year = 0
    /\ se_gov_data = <<>>
    /\ base_results = <<>>
    /\ enhanced_results = <<>>
    /\ se_found = <<>>
    /\ profitability_analysis = [view |-> <<>>, committed |-> <<>>]
    /\ se_ret = None
    /\ CostIdle
    /\ FinalIdle
    /\ OverallIdle
    /\ ConfidenceIdle
    /\ DirectIdle

\* calculate_profitability_matrix over the whole batch.
calculate_profitability_matrix_batch ==
    /\ pc_pc = "idle"
    /\ profitability_results' = ProfitabilityMatrix(matched_data, current_year)
    /\ pc_pc' = "done"
    /\ UNCHANGED <<current_year, match_data, risk_ret, demand_ret, profit_analysis>>
    /\ UNCHANGED <<mm_vars, lc_vars, se_vars, fs_vars, os_vars, ci_vars, dc_vars>>

\* analyze_profitability on what calculate_profitability_matrix returned:
\* the loop, the sort, the store, the return.
analyze_profitability_batch ==
    /\ pc_pc = "done"
    /\ se_pc = "idle"
    /\ \E found \in MarketLookups, gov \in GovData :
         \E sorted \in
              { SortDescBy(ScoreLoop(profitability_results,
                                     [gov_data |-> gov, competition |-> found.competition,
                                      volatility |-> found.volatility,
                                      supply |-> found.supply],
                                     ml_model, current_year),
                           "final_recommendation_score") } :
             /\ se_gov_data' = gov
             /\ se_found' = [i \in 1..Len(profitability_results) |-> found]
             /\ enhanced_results' = sorted
             /\ se_ret' = Some(sorted)
             /\ \E failed \in 0..(Len(sorted) + 1) :
                  profitability_analysis' =
                      _store_analysis_results(profitability_analysis, sorted, failed)
    /\ base_results' = profitability_results
    /\ se_year' = current_year
    /\ se_pc' = "done"
    /\ UNCHANGED ml_model
    /\ UNCHANGED <<mm_vars, lc_vars, pc_vars, fs_vars, os_vars, ci_vars, dc_vars>>

NextBatch == calculate_profitability_matrix_batch \/ analyze_profitability_batch

SpecBatch == InitBatch /\ [][NextBatch]_vars

-----------------------------------------------------------------------------
(* ScoringEngine._enhance_with_market_intelligence: one call, await by await *)

\* What a lookup of the call may answer.
CompetitionAnswers == {NoRow, CompetitionRow(0), CompetitionRow(10), CompetitionRow(20)}

VolatilityAnswers ==
    {NoRow, VolatilityRow(3, 95, 105), VolatilityRow(8, 95, 105), VolatilityRow(8, 80, 120)}

SupplyAnswers == {NoRow, SupplyRow(0, 0), SupplyRow(10, 2), SupplyRow(20, 3)}

InitEnhance ==
    /\ dc_pc = "idle"
    /\ dc_arg \in { [result |-> r, gov_data |-> g] :
                      r \in BaseResults(2025) \cup BaseResults(2026), g \in GovData }
    /\ dc_log = <<>>
    /\ dc_ret = None
    /\ MatchIdle
    /\ CostIdle
    /\ ProfitIdle
    /\ ScoreIdle
    /\ FinalIdle
    /\ OverallIdle
    /\ ConfidenceIdle

\* Lines 92-105: the registration trend, the ULEZ check and the seasonal
\* pattern need no lookup; the call reaches await _analyze_competition.
enhance_with_market_intelligence ==
    /\ dc_pc = "idle"
    /\ dc_pc' = "competition"
    /\ UNCHANGED <<dc_arg, dc_log, dc_ret>>
    /\ UNCHANGED <<mm_vars, lc_vars, pc_vars, se_vars, fs_vars, os_vars, ci_vars>>

\* Line 108: the fetchone of _analyze_competition is answered.
analyze_competition ==
    /\ dc_pc = "competition"
    /\ \E answer \in CompetitionAnswers : dc_log' = Append(dc_log, answer)
    /\ dc_pc' = "volatility"
    /\ UNCHANGED <<dc_arg, dc_ret>>
    /\ UNCHANGED <<mm_vars, lc_vars, pc_vars, se_vars, fs_vars, os_vars, ci_vars>>

\* Line 111: the fetchone of _assess_market_volatility is answered.
assess_market_volatility ==
    /\ dc_pc = "volatility"
    /\ \E answer \in VolatilityAnswers : dc_log' = Append(dc_log, answer)
    /\ dc_pc' = "supply"
    /\ UNCHANGED <<dc_arg, dc_ret>>
    /\ UNCHANGED <<mm_vars, lc_vars, pc_vars, se_vars, fs_vars, os_vars, ci_vars>>

\* Lines 114-116: the fetchone of _assess_supply_chain_risk is answered and
\* the call returns the enhanced result.
assess_supply_chain_risk ==
    /\ dc_pc = "supply"
    /\ \E answer \in SupplyAnswers :
         /\ dc_log' = Append(dc_log, answer)
         /\ dc_ret' = Some(_enhance_with_market_intelligence(dc_arg.result,
                              [gov_data |-> dc_arg.gov_data, competition |-> dc_log[1],
                               volatility |-> dc_log[2], supply |-> answer]))
    /\ dc_pc' = "done"
    /\ UNCHANGED dc_arg
    /\ UNCHANGED <<mm_vars, lc_vars, pc_vars, se_vars, fs_vars, os_vars, ci_vars>>

\* The lookup the call awaits is never answered.  The awaits of lines 258,
\* 301 and 343 have no timeout: the call stays suspended.
lookup_never_completes ==
    /\ dc_pc \in {"competition", "volatility", "supply"}
    /\ dc_pc' = "waiting"
    /\ UNCHANGED <<dc_arg, dc_log, dc_ret>>
    /\ UNCHANGED <<mm_vars, lc_vars, pc_vars, se_vars, fs_vars, os_vars, ci_vars>>

NextEnhance ==
    \/ enhance_with_market_intelligence
    \/ analyze_competition
    \/ assess_market_volatility
    \/ assess_supply_chain_risk
    \/ lookup_never_completes

SpecEnhance == InitEnhance /\ [][NextEnhance]_vars

\* The event loop runs whatever can run.
SpecEnhanceLive == SpecEnhance /\ WF_vars(NextEnhance)

-----------------------------------------------------------------------------
(* The risk score: _calculate_risk_score on its own, and through
   calculate_profitability_matrix and analyze_profitability *)

\* Matched records at the ends of every risk factor: the UK price range
\* inverted, nil, at the cap and beyond it, a mean price of 0, the fewest and
\* many listings, an old and a new vehicle, the worst and the best grade and
\* a NULL one.
RiskInputs ==
    { [make |-> "Toyota", model |-> "Prius", year |-> y, fuel_type |-> "Hybrid",
       avg_uk_price |-> p, min_uk_price |-> 100 - w, max_uk_price |-> 100 + w,
       uk_listing_count |-> n, avg_days_listed |-> 20,
       avg_landed_cost |-> 80, min_landed_cost |-> 80,
       japan_auction_count |-> 3, avg_condition_grade |-> g] :
         p \in {0, 100}, w \in {-10, 0, 25, 40}, n \in {0, 7, 25},
         y \in {2005, 2024}, g \in {None, Some(25), Some(45)} }

InitRisk ==
    /\ current_year \in CurrentYears
    /\ match_data \in RiskInputs
    /\ pc_pc = "idle"
    /\ risk_ret = None
    /\ demand_ret = None
    /\ profit_analysis = None
    /\ profitability_results = <<>>
    /\ ml_model \in {"RandomForestRegressor", "None"}
    /\ se_pc = "idle"
    /\ se_year = 0
    /\ se_gov_data = <<>>
    /\ base_results = <<>>
    /\ enhanced_results = <<>>
    /\ se_found = <<>>
    /\ profitability_analysis = [view |-> <<>>, committed |-> <<>>]
    /\ se_ret = None
    /\ MatchIdle
    /\ CostIdle
    /\ FinalIdle
    /\ OverallIdle
    /\ ConfidenceIdle
    /\ DirectIdle

\* _calculate_risk_score called on the matched record, whatever it holds.
calculate_risk_score ==
    /\ pc_pc = "idle"
    /\ risk_ret' = _calculate_risk_score(match_data, current_year)
    /\ pc_pc' = "risk"
    /\ UNCHANGED <<current_year, match_data, demand_ret, profit_analysis,
                   profitability_results>>
    /\ UNCHANGED <<mm_vars, lc_vars, se_vars, fs_vars, os_vars, ci_vars, dc_vars>>

NextRisk ==
    \/ calculate_risk_score
    \/ calculate_profitability_matrix
    \/ analyze_profitability_batch

SpecRisk == InitRisk /\ [][NextRisk]_vars

-----------------------------------------------------------------------------
(* ExchangeRateAPI.get_current_rates *)

\* What a GET of session.get gives: the request raises, or answers with a
\* status and a JSON body (a dict).
Raised == [raised |-> TRUE, status |-> 0, data |-> EmptyDict]

Answered(status, data) == [raised |-> FALSE, status |-> status, data |-> data]

\* Rates in units of 10^-4 per JPY.
AllRates == ("GBP" :> 50) @@ ("USD" :> 60) @@ ("EUR" :> 58)

PrimaryResponses ==
    { Raised, Answered(500, EmptyDict), Answered(200, "rates" :> AllRates),
      Answered(200, "rates" :> ("USD" :> 60)), Answered(200, EmptyDict) }

BackupResponses ==
    { Raised, Answered(401, EmptyDict),
      Answered(200, ("success" :> TRUE) @@ ("rates" :> AllRates)),
      Answered(200, ("success" :> FALSE) @@ ("rates" :> AllRates)),
      Answered(200, "rates" :> AllRates) }

\* The answers to one conversion request of the XE API: the body with a
\* 'to' list holding the mid rate, holding an entry without it, or empty.
XeResponses ==
    { Raised, Answered(500, EmptyDict), Answered(200, "to" :> <<"mid" :> 50>>),
      Answered(200, "to" :> <<EmptyDict>>), Answered(200, "to" :> <<>>) }

\* _fetch_from_exchangerate_api (lines 58-73): the table when the status is
\* 200; None on another status or when anything raised (the KeyError of a
\* body without 'rates' too).
_fetch_from_exchangerate_api(response) ==
    IF response.raised THEN None
    ELSE IF response.status = 200
    THEN IF "rates" \in DOMAIN response.data
         THEN Some(("GBP" :> Get(response.data["rates"], "GBP", 55))
                   @@ ("USD" :> Get(response.data["rates"], "USD", 67))
                   @@ ("EUR" :> Get(response.data["rates"], "EUR", 62))
                   @@ ("source" :> "exchangerate-api"))
         ELSE None
    ELSE None

\* Mutant of _fetch_from_fixer_api: the success flag of the body is not read.
_fetch_from_fixer_api_unchecked(response) ==
    IF response.raised THEN None
    ELSE IF response.status = 200
    THEN IF "rates" \in DOMAIN response.data
         THEN Some(("GBP" :> Get(response.data["rates"], "GBP", 55))
                   @@ ("USD" :> Get(response.data["rates"], "USD", 67))
                   @@ ("EUR" :> Get(response.data["rates"], "EUR", 62))
                   @@ ("source" :> "fixer"))
         ELSE None
    ELSE None

\* _fetch_from_fixer_api (lines 75-94): as above, and the body must say
\* success.
_fetch_from_fixer_api(response) ==
    IF response.raised THEN None
    ELSE IF response.status = 200
    THEN IF Get(response.data, "success", FALSE)
         THEN IF "rates" \in DOMAIN response.data
              THEN Some(("GBP" :> Get(response.data["rates"], "GBP", 55))
                        @@ ("USD" :> Get(response.data["rates"], "USD", 67))
                        @@ ("EUR" :> Get(response.data["rates"], "EUR", 62))
                        @@ ("source" :> "fixer"))
              ELSE None
         ELSE None
    ELSE None

XeCurrencies == <<"GBP", "USD", "EUR">>

\* The loop of _fetch_from_xe_api (lines 105-112) from currency i on:
\* [raised, rates].  A request that raises, or a body whose 'to' list is
\* empty (IndexError), ends the loop; another status than 200 leaves the
\* currency out.
RECURSIVE XeLoop(_, _, _)
XeLoop(responses, i, rates) ==
    IF i > Len(XeCurrencies) THEN [raised |-> FALSE, rates |-> rates]
    ELSE LET response == responses[i]
             to == Get(response.data, "to", <<EmptyDict>>)
         IN  IF response.raised THEN [raised |-> TRUE, rates |-> rates]
             ELSE IF response.status # 200 THEN XeLoop(responses, i + 1, rates)
             ELSE IF to = <<>> THEN [raised |-> TRUE, rates |-> rates]
             ELSE XeLoop(responses, i + 1,
                         (XeCurrencies[i] :> Get(to[1], "mid", 0)) @@ rates)

\* _fetch_from_xe_api (lines 96-122): the rates the loop gathered, when it
\* did not raise and gathered any.
_fetch_from_xe_api(responses) ==
    LET loop == XeLoop(responses, 1, EmptyDict)
    IN  IF loop.raised THEN None
        ELSE IF loop.rates # EmptyDict
        THEN Some(("source" :> "xe") @@ loop.rates)
        ELSE None

\* _get_fallback_rates (lines 124-132).
_get_fallback_rates ==
    ("GBP" :> 55) @@ ("USD" :> 67) @@ ("EUR" :> 62) @@ ("source" :> "fallback")

InitRates ==
    /\ dc_pc = "idle"
    /\ dc_arg \in [primary : PrimaryResponses, backup : BackupResponses,
                   xe : [1..3 -> XeResponses]]
    /\ dc_log = <<>>
    /\ dc_ret = None
    /\ MatchIdle
    /\ CostIdle
    /\ ProfitIdle
    /\ ScoreIdle
    /\ FinalIdle
    /\ OverallIdle
    /\ ConfidenceIdle

\* get_current_rates up to the answer of the primary API (lines 37-39).
fetch_from_exchangerate_api ==
    /\ dc_pc = "idle"
    /\ dc_log' = Append(dc_log, "exchangerate-api")
    /\ LET rates == _fetch_from_exchangerate_api(dc_arg.primary)
       IN  IF rates # None
           THEN dc_ret' = rates /\ dc_pc' = "done"
           ELSE dc_ret' = None /\ dc_pc' = "backup"
    /\ UNCHANGED dc_arg
    /\ UNCHANGED <<mm_vars, lc_vars, pc_vars, se_vars, fs_vars, os_vars, ci_vars>>

\* Lines 41-44: the backup API.
fetch_from_fixer_api ==
    /\ dc_pc = "backup"
    /\ dc_log' = Append(dc_log, "fixer")
    /\ LET rates == _fetch_from_fixer_api(dc_arg.backup)
       IN  IF rates # None
           THEN dc_ret' = rates /\ dc_pc' = "done"
           ELSE dc_ret' = None /\ dc_pc' = "xe"
    /\ UNCHANGED dc_arg
    /\ UNCHANGED <<mm_vars, lc_vars, pc_vars, se_vars, fs_vars, os_vars, ci_vars>>

\* Lines 46-52: the XE API, and the fallback table when it gave nothing.
\* (The except branch of lines 54-56 is not reached: each fetch catches its
\* own exceptions.)
fetch_from_xe_api ==
    /\ dc_pc = "xe"
    /\ dc_log' = Append(dc_log, "xe")
    /\ LET rates == _fetch_from_xe_api(dc_arg.xe)
       IN  IF rates # None
           THEN dc_ret' = rates
           ELSE dc_ret' = Some(_get_fallback_rates)
    /\ dc_pc' = "done"
    /\ UNCHANGED dc_arg
    /\ UNCHANGED <<mm_vars, lc_vars, pc_vars, se_vars, fs_vars, os_vars, ci_vars>>

NextRates == fetch_from_exchangerate_api \/ fetch_from_fixer_api \/ fetch_from_xe_api

SpecRates == InitRates /\ [][NextRates]_vars

\* Every request is answered or raises (the session's default timeout), and
\* the call goes on.
SpecRatesLive == SpecRates /\ WF_vars(NextRates)

-----------------------------------------------------------------------------
(* Claims *)

\* C1: whatever result _calculate_final_score is given - any overall_score
\* and ml_score, every signal present or missing - the score it returns lies
\* in [0,100].
C1_FinalScoreInRange ==
    fs_pc = "done" => /\ fs_ret # None
                      /\ Val(fs_ret) >= 0
                      /\ Val(fs_ret) <= 100 * FinalScale

\* A call whose weighted sum is below 0 with signals missing, returned as 0.
C1_Witness ==
    /\ fs_pc = "done"
    /\ "overall_score" \in DOMAIN fs_result
    /\ "market_volatility" \notin DOMAIN fs_result
    /\ "ulez_compliant" \notin DOMAIN fs_result
    /\ FinalScoreSum(fs_result) < 0
    /\ fs_ret = Some(0)

\* Leading and trailing whitespace removed.
Trim(str) == IF str = " toyota" THEN "toyota" ELSE str

\* uk or jp row r is a record of the vehicle of matched record m: make and
\* model compared without letter case and outer whitespace, same year, same
\* fuel type or none recorded.
RecordOf(r, m) ==
    /\ Trim(Lower(r.make)) = Trim(Lower(m.make))
    /\ Trim(Lower(r.model)) = Trim(Lower(m.model))
    /\ r.year = m.year
    /\ r.fuel_type \in {None, Some(m.fuel_type)}

C3_ConvertsByMultiplying ==
    (lc_pc = "done" /\ costs # EmptyDict) =>
        lc_locals.gbp_from_jpy =
            RoundHE(lc_locals.jpy_total * lc_locals.exchange_rate, RateScale)

\* C4: the landed-cost computation never assumes a rate: when the exchange-rate
\* request raised, had a non-200 status or held no GBP rate, the call produces no
\* cost breakdown.
C4_NoAssumedRate ==
    (lc_pc = "done" /\ lc_response.kind # "ok") => costs = EmptyDict

Abs(x) == IF x < 0 THEN -x ELSE x

C6_DegenerateOmitted ==
    (pc_pc = "done"
        /\ (match_data.avg_uk_price <= 0 \/ match_data.avg_landed_cost <= 0)) =>
            /\ profit_analysis = None
            /\ profitability_results = <<>>

C6_Witness ==
    /\ pc_pc = "done"
    /\ match_data.avg_uk_price > 0
    /\ match_data.avg_landed_cost <= 0
    /\ match_data.avg_condition_grade # None
    /\ profit_analysis = None

\* C7: every ml_score analyze_profitability stores is the rule-based blend
\* _calculate_ml_score computes over the features extracted from that result
\* (no trained regressor is ever substituted: ml_model is the regressor
\* __init__ built, or None).
C7_MlScoreIsRuleBasedBlend ==
    \A i \in 1..Len(enhanced_results) :
        enhanced_results[i].ml_score =
            _calculate_ml_score(_extract_features_for_ml(enhanced_results[i], se_year))

\* C8: for every matched record with positive average UK price and landed
\* cost, the overall_score of the result lies in [0,100].
C8_OverallScoreInRange ==
    (pc_pc = "done" /\ profit_analysis # None) =>
        /\ Val(profit_analysis).overall_score >= 0
        /\ Val(profit_analysis).overall_score <= 1000

\* C9: every ml_score analyze_profitability stores lies in [0,100].
C9_MlScoreInRange ==
    \A i \in 1..Len(enhanced_results) :
        /\ enhanced_results[i].ml_score >= 0
        /\ enhanced_results[i].ml_score <= 100 * MlScale

OnBothSides(t, other) ==
    LET kept == { r \in DOMAIN t :
                    \E o \in DOMAIN other :
                        /\ Lower(r.make) = Lower(o.make)
                        /\ Lower(r.model) = Lower(o.model)
                        /\ r.year = o.year
                        /\ r.fuel_type # None
                        /\ r.fuel_type = o.fuel_type }
    IN  [r \in kept |-> t[r]]

\* The elements of list q.
Range(q) == { q[i] : i \in 1..Len(q) }

\* C11: a vehicle with records in only one market is never in the matched
\* list: every matched record has a UK listing and an auction record behind
\* it and carries both sides' averages; and the one-sided vehicles leave the
\* rest untouched: the list holds what the query gives for the tables without
\* them (or is the empty list of a failed query).
C11_OneSidedKeysDropped ==
    mm_pc = "done" =>
        /\ \A i \in 1..Len(matched_data) :
             /\ \E uk \in DOMAIN OnBothSides(uk_market_data, japan_auction_data) :
                    GroupKey(uk) = [make |-> matched_data[i].make,
                                    model |-> matched_data[i].model,
                                    year |-> matched_data[i].year,
                                    fuel_type |-> Some(matched_data[i].fuel_type)]
             /\ matched_data[i].avg_uk_price > 0
             /\ matched_data[i].avg_landed_cost > 0
        /\ \/ matched_data = <<>>
           \/ Range(matched_data) =
                  MatchQuery(OnBothSides(uk_market_data, japan_auction_data),
                             OnBothSides(japan_auction_data, uk_market_data),
                             mm_make, mm_model)

\* Three Prius listings and three Prius auctions are matched while an Aqua
\* listing, alone in its market, is not.
C11_Witness ==
    /\ mm_pc = "done"
    /\ \E uk \in DOMAIN uk_market_data : uk.model = "Aqua"
    /\ Len(matched_data) = 1
    /\ matched_data[1].model = "Prius"
    /\ matched_data[1].uk_listing_count = 9

SameKeyAuctions(m) ==
    { jp \in DOMAIN japan_auction_data :
        /\ Trim(Lower(jp.make)) = Trim(Lower(m.make))
        /\ Trim(Lower(jp.model)) = Trim(Lower(m.model))
        /\ jp.year = m.year
        /\ jp.fuel_type = Some(m.fuel_type)
        /\ jp.total_landed_cost_gbp > 0 }

\* The UK listings grouped into matched record m.
GroupListings(m) ==
    { uk \in DOMAIN uk_market_data :
        /\ WhereClause(uk, mm_make, mm_model)
        /\ GroupKey(uk) = [make |-> m.make, model |-> m.model, year |-> m.year,
                           fuel_type |-> Some(m.fuel_type)] }

C14_LandedCostTotal ==
    (lc_pc = "done" /\ lc_hammer_price > 0 /\ _get_exchange_rate(lc_response) > 0) =>
        /\ costs # EmptyDict
        /\ LET rate == _get_exchange_rate(lc_response)
               converted == RoundHE(lc_locals.jpy_total * rate, RateScale)
               cif == converted + costs.freight_cost
           IN  /\ costs.uk_import_duty = 0
               /\ costs.uk_vat = RoundHE(cif * 20, 100)
               /\ costs.total_landed_cost_gbp =
                      converted + costs.freight_cost + costs.uk_vat
                        + costs.uk_import_duty
                        + (150 + 200 + 250 + 55)
                        + costs.conversion_costs
               /\ costs.total_landed_cost_gbp > 0
               /\ costs.exchange_rate_used = rate

\* C15: the conversion cost is the sum of the fixed items (150 + 100 + 50 + 75)
\* plus the 200 surcharge exactly when the vehicle's age, current year minus
\* model year, is below 9, for every current year.
C15_SurchargeByAge ==
    (lc_pc = "done" /\ costs # EmptyDict) =>
        \A year_now \in CurrentYears :
            costs.conversion_costs =
                (150 + 100 + 50 + 75)
                  + (IF year_now - lc_vehicle_data.year < 9 THEN 200 ELSE 0)

\* Fraction a is at most fraction b (positive denominators).
FracLeq(a, b) == a.num * b.den <= b.num * a.den

\* C16: _calculate_overall_score is monotone in profitability: of two calls
\* with the same risk_score, demand_score and days_listed, the one whose
\* profit_margin and roi are both at least the other's returns at least the
\* other's overall score.
C16_OverallScoreMonotone ==
    (os_prev # None /\ os_last # None) =>
        LET a == Val(os_prev)
            b == Val(os_last)
        IN  ( /\ a.args.risk_score = b.args.risk_score
              /\ a.args.demand_score = b.args.demand_score
              /\ a.args.days_listed = b.args.days_listed
              /\ FracLeq(a.args.profit_margin, b.args.profit_margin)
              /\ FracLeq(a.args.roi, b.args.roi) )
            => a.ret <= b.ret

\* Two calls that differ only in profitability, the second above the 50%
\* margin cap and the 100% roi cap, with a strictly higher score.
C16_Witness ==
    /\ os_prev # None
    /\ os_last # None
    /\ Val(os_prev).args = [profit_margin |-> Percent(25, 1), roi |-> Percent(30, 1),
                            risk_score |-> 200, demand_score |-> 800,
                            days_listed |-> 15]
    /\ Val(os_last).args = [profit_margin |-> Percent(60, 1), roi |-> Percent(150, 1),
                            risk_score |-> 200, demand_score |-> 800,
                            days_listed |-> 15]
    /\ Val(os_prev).ret < Val(os_last).ret

\* C17: scoring does not depend on the time of the run: the result
\* _calculate_individual_profit returned for a matched record is the one it
\* returns for that record in every current year (risk_score, demand_score
\* and overall_score included).
C17_ScoringTimeIndependent ==
    pc_pc = "done" =>
        \A year_now \in CurrentYears :
            _calculate_individual_profit(match_data, year_now) = profit_analysis

\* The tier of a signal of the result handed to _calculate_final_score:
\* result[outer][inner], "absent" when either key is missing.
SignalTier(outer, inner) ==
    IF outer \in DOMAIN fs_result /\ inner \in DOMAIN fs_result[outer]
    THEN fs_result[outer][inner]
    ELSE "absent"

\* up when the tier is good, -down when it is bad, 0 for every other tier.
TierPoints(tier, good, up, bad, down) ==
    IF tier = good THEN up ELSE IF tier = bad THEN -down ELSE 0

\* C18: for a result holding overall_score and ml_score,
\* final_recommendation_score = clamp to [0,100] of
\* 0.6 x overall_score + 0.4 x ml_score, +5 if the compliance flag is true
\* else -3, +3 / -5 for a growing / declining registration trend, +4 / -3 for
\* low / high competition, +2 / -4 for low / high volatility, +3 / -5 for
\* low / high supply risk, 0 for every other tier.
C18_FinalScoreFormula ==
    (fs_pc = "done" /\ {"overall_score", "ml_score"} \subseteq DOMAIN fs_result) =>
        LET compliant ==
                /\ "ulez_compliant" \in DOMAIN fs_result
                /\ "ulez_compliant" \in DOMAIN fs_result["ulez_compliant"]
                /\ fs_result["ulez_compliant"]["ulez_compliant"]
            points ==
                (IF compliant THEN 5 ELSE -3)
                + TierPoints(SignalTier("registration_trend", "trend"),
                             "growing", 3, "declining", 5)
                + TierPoints(SignalTier("competition_analysis", "competition_level"),
                             "low", 4, "high", 3)
                + TierPoints(SignalTier("market_volatility", "volatility"),
                             "low", 2, "high", 4)
                + TierPoints(SignalTier("supply_chain_risk", "supply_risk"),
                             "low", 3, "high", 5)
            \* 0.6 x tenths and 0.4 x 1/MlScale, in 1/FinalScale
            total == 6 * fs_result["overall_score"] * (FinalScale \div 100)
                       + 4 * fs_result["ml_score"] * (FinalScale \div (10 * MlScale))
                       + points * FinalScale
        IN  fs_ret = Some(IF total < 0 THEN 0
                          ELSE IF total > 100 * FinalScale THEN 100 * FinalScale
                          ELSE total)

\* overall 55.3 and ml 60.3075 (base 57.303), not compliant (-3), growing
\* trend (+3), high competition (-3), low volatility (+2), high supply risk
\* (-5): 51.303, inside the range.
C18_Witness ==
    /\ fs_pc = "done"
    /\ fs_result = ("overall_score" :> 553) @@ ("ml_score" :> 603075)
                     @@ ("ulez_compliant" :> [ulez_compliant |-> FALSE])
                     @@ ("registration_trend" :> [trend |-> "growing"])
                     @@ ("competition_analysis" :> [competition_level |-> "high"])
                     @@ ("market_volatility" :> [volatility |-> "low"])
                     @@ ("supply_chain_risk" :> [supply_risk |-> "high"])
    /\ fs_ret = Some(5130300)

\* The lookup answered nothing for the vehicle: no row (fetchone gives None,
\* also when the query failed), or an aggregate row that counted no record.
NoDataFound(lookup, count) ==
    lookup.kind = "none" \/ (lookup.kind = "row" /\ lookup[count] = 0)

\* C19: a signal whose lookup failed, returned no row or found no data takes
\* its 'unknown' or 'medium' tier - the tiers that add no bonus and no penalty
\* to final_recommendation_score - and puts no warning in risk_warnings, and
\* the vehicle is scored: checked for the supply-risk, competition,
\* volatility and registration-trend signals of every result of the loop.
C19_MissingSignalIsNeutral ==
    se_pc = "loop" =>
        /\ Len(se_found) = Len(enhanced_results)
        /\ \A i \in 1..Len(enhanced_results) :
             LET r == enhanced_results[i]
                 f == se_found[i]
                 warnings == { r.risk_warnings[k] : k \in 1..Len(r.risk_warnings) }
             IN  /\ "final_recommendation_score" \in DOMAIN r
                 /\ NoDataFound(f.supply, "auction_count") =>
                      /\ r.supply_chain_risk.supply_risk \in {"unknown", "medium"}
                      /\ "Limited auction supply - secure inventory quickly when available"
                             \notin warnings
                 /\ f.competition.kind = "none" =>
                      /\ r.competition_analysis.competition_level \in {"unknown", "medium"}
                      /\ "High competition - ensure competitive pricing strategy"
                             \notin warnings
                 /\ NoDataFound(f.volatility, "price_points") =>
                      /\ r.market_volatility.volatility \in {"unknown", "medium"}
                      /\ "High price volatility detected - monitor market closely"
                             \notin warnings
                 /\ (\A k \in 1..Len(se_gov_data) :
                        \/ Lower(se_gov_data[k].make) # Lower(r.make)
                        \/ Lower(se_gov_data[k].model) # Lower(r.model)) =>
                      /\ r.registration_trend.trend \in {"unknown", "medium"}
                      /\ "Declining registration trend - monitor demand carefully"
                             \notin warnings

\* result[outer][inner] of the result handed to
\* _calculate_confidence_interval, "absent" when either key is missing.
ConfidenceSignal(outer, inner) ==
    IF outer \in DOMAIN ci_result /\ inner \in DOMAIN ci_result[outer]
    THEN ci_result[outer][inner]
    ELSE "absent"

\* A count of the result, 0 when missing.
ConfidenceCount(key) == IF key \in DOMAIN ci_result THEN ci_result[key] ELSE 0

\* The three tier factors of C20, in hundredths.
VolumeFactor ==
    IF ConfidenceCount("uk_listing_count") >= 10
          /\ ConfidenceCount("japan_auction_count") >= 5 THEN 90
    ELSE IF ConfidenceCount("uk_listing_count") >= 5
          /\ ConfidenceCount("japan_auction_count") >= 3 THEN 70
    ELSE 40

TrendFactor ==
    CASE ConfidenceSignal("registration_trend", "confidence") = "high" -> 80
      [] ConfidenceSignal("registration_trend", "confidence") = "medium" -> 60
      [] OTHER -> 30

VolatilityFactor ==
    CASE ConfidenceSignal("market_volatility", "volatility") = "low" -> 80
      [] ConfidenceSignal("market_volatility", "volatility") = "medium" -> 60
      [] OTHER -> 30

CategoryRank(category) ==
    CASE category = "Not Recommended" -> 0
      [] category = "Caution" -> 1
      [] category = "Consider" -> 2
      [] category = "Recommended" -> 3
      [] category = "Highly Recommended" -> 4

\* The pair the thresholds give a score, in whole points times FinalScale.
CategoryOf(x) ==
    CASE x >= 80 * FinalScale ->
             [recommendation_category |-> "Highly Recommended", priority |-> "High"]
      [] x < 80 * FinalScale /\ x >= 70 * FinalScale ->
             [recommendation_category |-> "Recommended", priority |-> "High"]
      [] x < 70 * FinalScale /\ x >= 60 * FinalScale ->
             [recommendation_category |-> "Consider", priority |-> "Medium"]
      [] x < 60 * FinalScale /\ x >= 50 * FinalScale ->
             [recommendation_category |-> "Caution", priority |-> "Low"]
      [] x < 50 * FinalScale ->
             [recommendation_category |-> "Not Recommended", priority |-> "None"]

\* C21: _generate_recommendations maps a final_recommendation_score in
\* [0,100] to the pair of its threshold band (>= 80, >= 70, >= 60, >= 50,
\* below 50), and no lower score gets a better category.
C21_RecommendationThresholds ==
    (dc_pc = "done" /\ "final_recommendation_score" \in DOMAIN dc_arg) =>
        LET x == dc_arg["final_recommendation_score"]
        IN  /\ dc_ret = Some(CategoryOf(x))
            /\ \A y \in RecommendScores :
                 y <= x =>
                   CategoryRank(_generate_recommendations(
                       "final_recommendation_score" :> y).recommendation_category)
                     <= CategoryRank(Val(dc_ret).recommendation_category)

\* A score of exactly 70, returned as Recommended / High.
C21_Witness ==
    /\ dc_pc = "done"
    /\ dc_arg = ("final_recommendation_score" :> 70 * FinalScale)
    /\ dc_ret = Some([recommendation_category |-> "Recommended", priority |-> "High"])

\* dc_arg[outer][inner], "absent" when either key is missing.
InsightSignal(outer, inner) ==
    IF outer \in DOMAIN dc_arg /\ inner \in DOMAIN dc_arg[outer]
    THEN dc_arg[outer][inner]
    ELSE "absent"

\* A risk flag of the result is set.
RiskFlagSet ==
    \/ InsightSignal("market_volatility", "volatility") = "high"
    \/ InsightSignal("supply_chain_risk", "supply_risk") = "high"
    \/ InsightSignal("competition_analysis", "competition_level") = "high"
    \/ InsightSignal("registration_trend", "trend") = "declining"
    \/ ("risk_score" \in DOMAIN dc_arg /\ dc_arg["risk_score"] > 700)
    \/ ("avg_days_to_sell" \in DOMAIN dc_arg /\ dc_arg["avg_days_to_sell"] > 60)

CompleteSet(results) == [i \in 1..Len(results) |-> AnalysisRow(results[i])]

\* C23: after a run - also one in which writing a row failed part-way - the
\* profitability_analysis table readers see holds the complete result set of
\* one run: the set of this run, or the set that was committed before it;
\* never a part of the new set and never an emptied table.
C23_TableHoldsOneRun ==
    se_pc = "done" =>
        \/ profitability_analysis.view = CompleteSet(enhanced_results)
        \/ profitability_analysis.view = profitability_analysis.committed

\* The matched records of the batch whose own scoring gives a result.
Scorable ==
    { i \in 1..Len(matched_data) :
        _calculate_individual_profit(matched_data[i], current_year) # None }

\* Record r is the scored record of matched record m.
ScoredFrom(r, m) ==
    /\ r.make = m.make
    /\ r.model = m.model
    /\ r.year = m.year
    /\ r.fuel_type = m.fuel_type
    /\ r.avg_landed_cost = m.avg_landed_cost

\* C24: a failure while scoring one vehicle affects that vehicle only:
\* calculate_profitability_matrix returns the results of all the other
\* matched records, analyze_profitability returns a list with one scored
\* record for each of them, and neither call raises.
C24_FailureIsPerVehicle ==
    /\ pc_pc = "done" =>
         /\ Len(profitability_results) = Cardinality(Scorable)
         /\ \A i \in Scorable :
              Val(_calculate_individual_profit(matched_data[i], current_year))
                  \in Range(profitability_results)
    /\ se_pc = "done" =>
         /\ se_ret # None
         /\ Len(Val(se_ret)) = Cardinality(Scorable)
         /\ \A i \in Scorable :
              \E k \in 1..Len(Val(se_ret)) :
                  /\ ScoredFrom(Val(se_ret)[k], matched_data[i])
                  /\ "final_recommendation_score" \in DOMAIN Val(se_ret)[k]
                  /\ "ml_score" \in DOMAIN Val(se_ret)[k]

\* A batch of the vehicle whose risk score raises and a scorable one, with
\* the ML prediction failing too: the scorable one is returned, scored.
C24_Witness ==
    /\ se_pc = "done"
    /\ Len(matched_data) = 2
    /\ matched_data[1].avg_condition_grade = None
    /\ matched_data[1].avg_landed_cost > 0
    /\ matched_data[2].make = "BMW"
    /\ ml_model = "RandomForestRegressor"
    /\ Len(Val(se_ret)) = 1
    /\ Val(se_ret)[1].make = "BMW"
    /\ Val(se_ret)[1].ml_score = Val(se_ret)[1].overall_score * (MlScale \div 10)

\* C25: a call whose lookup never completes still returns (with the signal
\* at its default), so that the run goes on: whenever
\* _enhance_with_market_intelligence waits on a lookup that is not answered,
\* it eventually returns.
C25_ReturnsDespiteHungLookup == (dc_pc = "waiting") ~> (dc_pc = "done")

\* The scored record of the i-th base result of the run, from the answers
\* its lookups gave.
ScoredResult(i) ==
    ScoreResult(base_results[i],
                [gov_data |-> se_gov_data, competition |-> se_found[i].competition,
                 volatility |-> se_found[i].volatility, supply |-> se_found[i].supply],
                ml_model, se_year)

\* C26: the list analyze_profitability returns is a permutation of the
\* scored base results - one record for each base result, each with ml_score,
\* final_recommendation_score and recommendation_category - in the order of
\* final_recommendation_score, highest first; and nothing is returned before
\* the lookups of every base result of the run have finished.
C26_ReturnsSortedPermutation ==
    /\ se_ret # None =>
         /\ se_pc = "done"
         /\ Len(se_found) = Len(base_results)
    /\ se_pc = "done" =>
         LET ret == Val(se_ret)
             n == Len(base_results)
         IN  /\ Len(ret) = n
             /\ \E p \in [1..n -> 1..n] :
                  /\ \A i \in 1..n : \A j \in 1..n : p[i] = p[j] => i = j
                  /\ \A i \in 1..n : ret[p[i]] = ScoredResult(i)
             /\ \A k \in 1..n :
                  {"ml_score", "final_recommendation_score", "recommendation_category"}
                      \subseteq DOMAIN ret[k]
             /\ \A k \in 1..(n - 1) :
                  ret[k].final_recommendation_score
                      >= ret[k + 1].final_recommendation_score

\* A run of two vehicles that returns them in the other order than the base
\* results had: the second scored strictly higher.
C26_Witness ==
    /\ se_pc = "done"
    /\ Len(base_results) = 2
    /\ Len(se_found) = 2
    /\ Val(se_ret)[1] = ScoredResult(2)
    /\ Val(se_ret)[1].final_recommendation_score
           > Val(se_ret)[2].final_recommendation_score

\* The tiers of the three confidence factors of a result, 0 the worst and 2
\* the best: data volume, registration-trend confidence, price volatility.
FactorTiers(r) ==
    LET uk == IF "uk_listing_count" \in DOMAIN r THEN r.uk_listing_count ELSE 0
        jp == IF "japan_auction_count" \in DOMAIN r THEN r.japan_auction_count ELSE 0
        trend == IF "registration_trend" \in DOMAIN r
                    /\ "confidence" \in DOMAIN r.registration_trend
                 THEN r.registration_trend.confidence ELSE "absent"
        vol == IF "market_volatility" \in DOMAIN r
                  /\ "volatility" \in DOMAIN r.market_volatility
               THEN r.market_volatility.volatility ELSE "absent"
    IN  << IF uk >= 10 /\ jp >= 5 THEN 2 ELSE IF uk >= 5 /\ jp >= 3 THEN 1 ELSE 0,
           CASE trend = "high" -> 2 [] trend = "medium" -> 1 [] OTHER -> 0,
           CASE vol = "low" -> 2 [] vol = "medium" -> 1 [] OTHER -> 0 >>

\* The results that differ from the one of the call in the signal behind one
\* factor, and have that factor at a better tier.
ImprovedInOneFactor ==
    LET changed ==
            { Update(ci_result, [uk_listing_count |-> u, japan_auction_count |-> j]) :
                u \in {2, 5, 9, 10, 20}, j \in {1, 3, 4, 5, 20} }
            \cup { Update(ci_result, [registration_trend |-> [confidence |-> c]]) :
                     c \in {"high", "medium", "low"} }
            \cup { Update(ci_result, [market_volatility |-> [volatility |-> v]]) :
                     v \in {"low", "medium", "high", "unknown"} }
    IN  { r \in changed :
            \E k \in 1..3 :
                /\ FactorTiers(r)[k] > FactorTiers(ci_result)[k]
                /\ \A l \in (1..3) \ {k} : FactorTiers(r)[l] = FactorTiers(ci_result)[l] }

LevelRank(level) ==
    CASE level = "Low" -> 0
      [] level = "Medium" -> 1
      [] level = "High" -> 2

C28_RiskScoreBelowTrigger ==
    /\ risk_ret # None => 2 * Val(risk_ret) <= 725
    /\ \A i \in 1..Len(profitability_results) :
         2 * profitability_results[i].risk_score <= 725
    /\ \A k \in 1..Len(enhanced_results) :
         /\ 2 * enhanced_results[k].risk_score <= 725
         /\ ~(enhanced_results[k].risk_score > 700)
         /\ \A w \in 1..Len(enhanced_results[k].risk_warnings) :
              enhanced_results[k].risk_warnings[w]
                  # "High overall risk score - consider additional due diligence"

\* The riskiest record - price range beyond the cap, no listing, 20 years
\* old, grade 2.5 - went through the run: its risk score is 36.2, and it got
\* other warnings.
C28_Witness ==
    /\ se_pc = "done"
    /\ match_data.max_uk_price - match_data.min_uk_price = 80
    /\ match_data.uk_listing_count = 0
    /\ match_data.year = 2005
    /\ match_data.avg_condition_grade = Some(25)
    /\ Len(enhanced_results) = 1
    /\ enhanced_results[1].risk_score = 362
    /\ enhanced_results[1].risk_warnings # <<>>

\* The auction table without the records whose landed-cost calculation
\* failed (total_landed_cost_gbp = 0).
WithoutFailedCosts(jp_table) ==
    [jp \in { x \in DOMAIN jp_table : x.total_landed_cost_gbp # 0 } |-> jp_table[jp]]

\* C29: an auction record with total_landed_cost_gbp = 0 contributes to no
\* matched aggregate: every matched record is the one the matcher gives on
\* the auction table without these records (same counts, same average and
\* minimum landed cost), and its minimum and average landed cost are
\* positive.
C29_FailedCostNeverAggregated ==
    mm_pc = "done" =>
        /\ Range(matched_data)
               \subseteq MatchQuery(uk_market_data, WithoutFailedCosts(japan_auction_data),
                                    mm_make, mm_model)
        /\ \A i \in 1..Len(matched_data) :
             /\ matched_data[i].min_landed_cost > 0
             /\ matched_data[i].avg_landed_cost > 0

\* Two Prius listings, two Prius auctions at 80 and one whose landed cost
\* failed: the vehicle is matched on 2 x 2 joined rows, average and minimum
\* landed cost 80.
C29_Witness ==
    /\ mm_pc = "done"
    /\ \E jp \in DOMAIN japan_auction_data :
         /\ jp.total_landed_cost_gbp = 0
         /\ jp.make = "Toyota"
         /\ jp.fuel_type = Some("Hybrid")
    /\ Len(matched_data) = 1
    /\ matched_data[1].make = "Toyota"
    /\ matched_data[1].japan_auction_count = 4
    /\ matched_data[1].avg_landed_cost = 80
    /\ matched_data[1].min_landed_cost = 80

\* A provider yields rates: the primary API when it answers 200 with a
\* 'rates' table, the backup API when it also says success, the XE API when
\* no conversion request failed and one at least answered 200.
PrimaryYields ==
    /\ ~dc_arg.primary.raised
    /\ dc_arg.primary.status = 200
    /\ "rates" \in DOMAIN dc_arg.primary.data

BackupYields ==
    /\ ~dc_arg.backup.raised
    /\ dc_arg.backup.status = 200
    /\ "success" \in DOMAIN dc_arg.backup.data
    /\ dc_arg.backup.data["success"]
    /\ "rates" \in DOMAIN dc_arg.backup.data

XeYields ==
    /\ \A i \in 1..3 :
         /\ ~dc_arg.xe[i].raised
         /\ dc_arg.xe[i].status = 200 =>
              ("to" \in DOMAIN dc_arg.xe[i].data => dc_arg.xe[i].data["to"] # <<>>)
    /\ \E i \in 1..3 : dc_arg.xe[i].status = 200

\* The provider whose result the call is to return.
ProviderToUse ==
    IF PrimaryYields THEN "exchangerate-api"
    ELSE IF BackupYields THEN "fixer"
    ELSE IF XeYields THEN "xe"
    ELSE "fallback"

RatesInOrder ==
    /\ \E n \in 0..3 : dc_log = SubSeq(<<"exchangerate-api", "fixer", "xe">>, 1, n)
    /\ Len(dc_log) >= 2 => ~PrimaryYields
    /\ Len(dc_log) >= 3 => ~BackupYields
    /\ dc_ret # None => dc_pc = "done"
    /\ dc_pc = "done" =>
         /\ dc_ret # None
         /\ "source" \in DOMAIN Val(dc_ret)
         /\ Val(dc_ret)["source"] = ProviderToUse
         /\ ProviderToUse # "fallback" =>
              /\ dc_log[Len(dc_log)] = ProviderToUse
              /\ dc_ret = (CASE ProviderToUse = "exchangerate-api" ->
                                    _fetch_from_exchangerate_api(dc_arg.primary)
                             [] ProviderToUse = "fixer" ->
                                    _fetch_from_fixer_api(dc_arg.backup)
                             [] ProviderToUse = "xe" -> _fetch_from_xe_api(dc_arg.xe))
         /\ ProviderToUse = "fallback" =>
              /\ Len(dc_log) = 3
              /\ dc_ret = Some(_get_fallback_rates)

\* C30: get_current_rates asks the primary API, then the backup API, then
\* the XE API, each only when every earlier one gave no rates, and returns
\* the table of the first that yields rates, the fallback table only when
\* none did; every call returns, and the table it returns has a 'source'
\* naming the provider used.
C30_FirstProviderWins == []RatesInOrder /\ <>(dc_pc = "done")

\* The primary request raised, the backup answered without success, the XE
\* API gave rates: the three were asked in order and the table is XE's.
C30_Witness ==
    /\ dc_pc = "done"
    /\ dc_arg.primary.raised
    /\ dc_arg.backup.status = 200
    /\ dc_log = <<"exchangerate-api", "fixer", "xe">>
    /\ Val(dc_ret)["source"] = "xe"
    /\ "GBP" \in DOMAIN Val(dc_ret)

=========================================================================
